---- MODULE Spec2Model ----
(***************************************************************************)
(* bmslab: a multithreaded bitmap based slab allocator.                    *)
(*                                                                         *)
(* The model follows the allocator with page lock/reference words and      *)
(* adaptive expansion and shrinkage (struct bmslab, bmslab_init,           *)
(* bmslab_alloc, bmslab_free, adaptive_phys_page_expand,                   *)
(* adaptive_phys_page_shrink, try_ref_page).  Every action is one atomic   *)
(* access to the shared words of struct bmslab together with the local     *)
(* computation that follows it, so that every interleaving of the atomic   *)
(* operations of concurrent callers is a behaviour of the model.           *)
(*                                                                         *)
(* Representation.                                                         *)
(*  - A 32-bit sub-bitmap word is the set of its bit positions that hold   *)
(*    1 (0xffffffff is 0..31, 0 is {}).                                    *)
(*  - A 64-bit page_lock_refs word is the pair of its top bit (lock,       *)
(*    PAGE_LOCK_MASK) and its low 63 bits (ref).                           *)
(*  - A pointer is its byte offset from base_addr; NULL is the value NULL. *)
(*  - murmurhash32 is applied to the address of the caller's stack frame   *)
(*    and a per-thread seed; the frame address is an input of the          *)
(*    environment, so a hash value is any value of 0..MaxHash.             *)
(*  - atomic_compare_exchange_weak fails only when the word differs from   *)
(*    the expected value (the lock cmpxchg / CAS instruction of the        *)
(*    builds the Makefile produces).                                       *)
(***************************************************************************)
EXTENDS Integers, FiniteSets, Bags, TLC

PAGE_SIZE == 4096

PAGE_SHIFT == 12

SUBMAP_COUNT == 16

WORD_BITS == 32

\* Bounds of the model.
MaxPages == 2

MaxHash == 1

NumThreads == 2

\* The null pointer (no offset into the reserved range).
NULL == -1

\* obj_size .. phys_page_count: the fields of struct bmslab.
\* thr: every thread's position in its call and its local variables.
\* outstanding: the bag of pointers bmslab_alloc has returned and no
\*   caller has passed to bmslab_free since.
\* hist: what the single caller of a sequential run has done so far.
\* api: the last call of the interface made with arguments outside the
\*   ordinary use of the allocator (a null or foreign argument, a stale
\*   pointer, a statistics call, another bmslab_init), with what it
\*   returned and the fields of the instance as they were at the call.
VARIABLES obj_size, virt_page_count, bitmaps, page_lock_refs,
          allocated_slot_count, phys_page_count_flag, phys_page_count,
          thr, outstanding, hist, api

vars == <<obj_size, virt_page_count, bitmaps, page_lock_refs,
          allocated_slot_count, phys_page_count_flag, phys_page_count,
          thr, outstanding, hist, api>>

slab == <<obj_size, virt_page_count, bitmaps, page_lock_refs,
          allocated_slot_count, phys_page_count_flag, phys_page_count>>

-----------------------------------------------------------------------------
(* Words *)

\* 0xffffffffU
ALL_ONES == 0 .. (WORD_BITS - 1)

\* __builtin_ctz(~oldv): the lowest bit position that is 0 in oldv
\* (the caller has excluded oldv = 0xffffffff).
CtzNot(oldv) ==
    CHOOSE b \in 0 .. (WORD_BITS - 1) :
        /\ b \notin oldv
        /\ \A c \in 0 .. (b - 1) : c \in oldv

\* x >> n on unsigned values
Shr(x, n) == x \div (2 ^ n)

\* x << n
Shl(x, n) == x * (2 ^ n)

Pages == 0 .. (virt_page_count - 1)

slot_count_per_page == PAGE_SIZE \div obj_size

\* a < b on uint32_t values.  A counter that has been decremented below 0
\* holds 2^32 - k and is written -k.
U32Less(a, b) == IF (a < 0) = (b < 0) THEN a < b ELSE b < 0

PAGE_EXPAND_THRESHOLD(max_page_cnt) == Shr(max_page_cnt, 1)

PAGE_SHRINK_THRESHOLD(max_page_cnt) == Shr(max_page_cnt, 3)

IS_PAGE_LOCKED(page_lock_ref) == page_lock_ref.lock

\* Mutant of is_page_reclaimable: page_lock_ref & PAGE_LOCK_MASK.
is_page_reclaimable_locked(page_lock_ref) == page_lock_ref.lock

\* page_lock_ref == PAGE_LOCK_MASK
is_page_reclaimable(page_lock_ref) ==
    page_lock_ref.lock /\ page_lock_ref.ref = 0

\* The low 63 bits, all ones, written -1: the value ref takes when 1 is
\* subtracted from a word whose low 63 bits are 0 (the borrow flips the
\* top bit).
REF_ONES == -1

\* atomic_fetch_add(&page_lock_refs[..], 1U) on the word w
RefAdd(w) ==
    IF w.ref = REF_ONES THEN [lock |-> ~w.lock, ref |-> 0]
    ELSE [lock |-> w.lock, ref |-> w.ref + 1]

\* atomic_fetch_sub(&page_lock_refs[..], 1U) on the word w
RefSub(w) ==
    IF w.ref = 0 THEN [lock |-> ~w.lock, ref |-> REF_ONES]
    ELSE [lock |-> w.lock, ref |-> w.ref - 1]

\* page_start(slab, page_idx), as an offset from base_addr
page_start(page_idx) == Shl(page_idx, PAGE_SHIFT)

-----------------------------------------------------------------------------
(* bmslab_init *)

\* Mutant of InitSubmap: the loop over the slots runs to s <= slot_count_per_page.
InitSubmapOffByOne(submap_idx) ==
    (0 .. (WORD_BITS - 1))
        \ { s \div SUBMAP_COUNT :
              s \in { x \in 0 .. slot_count_per_page :
                        x % SUBMAP_COUNT = submap_idx } }

\* Mutant of InitSubmap: slot s is given bit s mod 32 of submap s div 32.
InitSubmapTransposed(submap_idx) ==
    ALL_ONES \ { s % WORD_BITS :
                   s \in { x \in 0 .. (slot_count_per_page - 1) :
                             x \div WORD_BITS = submap_idx } }

\* The word of submap submap_idx after the loops of bmslab_init: all ones,
\* then bit s / SUBMAP_COUNT cleared for every s < slot_count_per_page with
\* s % SUBMAP_COUNT = submap_idx.
InitSubmap(submap_idx) ==
    ALL_ONES \ { s \div SUBMAP_COUNT :
                   s \in { x \in 0 .. (slot_count_per_page - 1) :
                             x % SUBMAP_COUNT = submap_idx } }

Threads == 1 .. NumThreads

\* The history of a sequential run.  only_alloc: no bmslab_free call yet.
\* phase: "full" once an alloc has brought the number of outstanding
\* pointers to virt_page_count * slot_count_per_page, "freed1" after
\* exactly one free (of p) since then, "drain" after more frees, "realloc"
\* in the alloc call that follows the single free of p, "none" otherwise.
NoHist == [only_alloc |-> TRUE, phase |-> "none", p |-> NULL]

\* No such call has been made since the last ordinary call.
NoCall == [call |-> "none", args |-> <<>>, ret |-> NULL, snap |-> <<>>]

Idle == [pc |-> "idle", page_start_idx |-> 0, i |-> 0, page_idx |-> 0,
         submap_start_idx |-> 0, sub_i |-> 0, oldv |-> {}, slot_count |-> 0,
         idx |-> 0, ra |-> "", ptr |-> NULL]

\* The state bmslab_init(size, max_page_count) returns, with nthreads
\* threads about to use it.
bmslab_init(size, max_page_count, nthreads) ==
    /\ obj_size = size
    /\ virt_page_count = max_page_count
    /\ phys_page_count_flag = 0
    /\ phys_page_count = 1
    /\ allocated_slot_count = 0
    /\ bitmaps = [p \in 0 .. (max_page_count - 1) |->
                    [s \in 0 .. (SUBMAP_COUNT - 1) |-> InitSubmap(s)]]
    /\ page_lock_refs = [p \in 0 .. (max_page_count - 1) |->
                           [lock |-> FALSE, ref |-> 0]]
    /\ thr = [t \in 1 .. nthreads |-> Idle]
    /\ outstanding = EmptyBag
    /\ hist = NoHist
    /\ api = NoCall

-----------------------------------------------------------------------------
(* Thread-local helpers *)

Me(t) == thr[t]

Goto(t, r) == thr' = [thr EXCEPT ![t] = r]

At(t, label) == t \in DOMAIN thr /\ thr[t].pc = label

\* submap_idx = (submap_start_idx + sub_i) % SUBMAP_COUNT
SubmapIdx(r) == (r.submap_start_idx + r.sub_i) % SUBMAP_COUNT

\* `continue' in the loop over the submaps: next sub_i, or the end of the
\* loop, where the page is unreferenced.
NextSubmap(r) ==
    IF r.sub_i + 1 < SUBMAP_COUNT
    THEN [r EXCEPT !.sub_i = r.sub_i + 1, !.oldv = {}, !.pc = "a_load"]
    ELSE [r EXCEPT !.sub_i = 0, !.submap_start_idx = 0, !.oldv = {},
                   !.pc = "a_unref"]

\* `continue' in the loop over the pages
NextPage(r) ==
    [r EXCEPT !.i = r.i + 1, !.page_idx = 0, !.pc = "a_loop"]

\* return from adaptive_phys_page_expand to its call site in bmslab_alloc
ExpandReturn(r) ==
    IF r.ra = "succ"
    THEN [r EXCEPT !.pc = "a_ret", !.slot_count = 0, !.idx = 0, !.ra = ""]
    ELSE [Idle EXCEPT !.pc = "a_retry"]

-----------------------------------------------------------------------------
(* The caller's history, kept in sequential runs only *)

Sequential == DOMAIN thr = {1}

\* virt_page_count * slot_count_per_page: every real slot of every page
Capacity == virt_page_count * slot_count_per_page

HistAllocCall(h) ==
    CASE h.phase = "freed1" -> [h EXCEPT !.phase = "realloc"]
      [] h.phase = "full" -> h
      [] OTHER -> [h EXCEPT !.phase = "none", !.p = NULL]

HistAllocReturn(h, ptr, held) ==
    IF ptr = NULL
    THEN IF h.phase = "full" THEN h
         ELSE [h EXCEPT !.phase = "none", !.p = NULL]
    ELSE [h EXCEPT !.phase = IF held = Capacity THEN "full" ELSE "none",
                   !.p = NULL]

HistFreeCall(h, ptr) ==
    CASE h.phase = "full" ->
           [only_alloc |-> FALSE, phase |-> "freed1", p |-> ptr]
      [] h.phase \in {"freed1", "drain"} ->
           [only_alloc |-> FALSE, phase |-> "drain", p |-> NULL]
      [] OTHER -> [only_alloc |-> FALSE, phase |-> "none", p |-> NULL]

-----------------------------------------------------------------------------
(* bmslab_alloc *)

\* A caller enters bmslab_alloc: sp = __builtin_frame_address(0)
AllocCall(t) ==
    /\ At(t, "idle")
    /\ Goto(t, [Idle EXCEPT !.pc = "a_retry"])
    /\ hist' = IF Sequential THEN HistAllocCall(hist) ELSE hist
    /\ UNCHANGED <<slab, outstanding>>

\* retry: page_start_idx = murmurhash32(..) % slab->phys_page_count
AllocRetry(t) ==
    /\ At(t, "a_retry")
    /\ \E h \in 0 .. MaxHash :
         Goto(t, [Me(t) EXCEPT !.page_start_idx = h % phys_page_count,
                               !.i = 0, !.pc = "a_loop"])
    /\ UNCHANGED <<slab, outstanding, hist>>

\* Mutant of AllocLoop: the loop over the pages stops one page early.
AllocLoopShort(t) ==
    /\ At(t, "a_loop")
    /\ Goto(t, IF Me(t).i + 1 < phys_page_count
               THEN [Me(t) EXCEPT !.pc = "a_pidx"]
               ELSE [Idle EXCEPT !.pc = "a_chk"])
    /\ UNCHANGED <<slab, outstanding, hist>>

\* for (...; i < slab->phys_page_count; ...)
AllocLoop(t) ==
    /\ At(t, "a_loop")
    /\ Goto(t, IF Me(t).i < phys_page_count
               THEN [Me(t) EXCEPT !.pc = "a_pidx"]
               ELSE [Idle EXCEPT !.pc = "a_chk"])
    /\ UNCHANGED <<slab, outstanding, hist>>

\* page_idx = (page_start_idx + i) % slab->phys_page_count
AllocPageIdx(t) ==
    /\ At(t, "a_pidx")
    /\ Goto(t, [Me(t) EXCEPT
                  !.page_idx = (Me(t).page_start_idx + Me(t).i)
                                  % phys_page_count,
                  !.pc = "a_ref"])
    /\ UNCHANGED <<slab, outstanding, hist>>

\* Mutant of TryRefPage: the lock bit of the old value is not tested.
TryRefPageNoLock(t) ==
    /\ At(t, "a_ref")
    /\ LET p == Me(t).page_idx
           old == page_lock_refs[p]
       IN /\ page_lock_refs' = [page_lock_refs EXCEPT ![p] = RefAdd(old)]
          /\ \E h \in 0 .. MaxHash :
                Goto(t, [Me(t) EXCEPT
                           !.submap_start_idx = h % SUBMAP_COUNT,
                           !.sub_i = 0, !.pc = "a_load"])
    /\ UNCHANGED <<obj_size, virt_page_count, bitmaps, allocated_slot_count,
                   phys_page_count_flag, phys_page_count, outstanding, hist>>

\* try_ref_page: atomic_fetch_add(&page_lock_refs[page_idx], 1U), and on
\* success submap_start_idx = murmurhash32(..) % SUBMAP_COUNT
TryRefPage(t) ==
    /\ At(t, "a_ref")
    /\ LET p == Me(t).page_idx
           old == page_lock_refs[p]
       IN /\ page_lock_refs' = [page_lock_refs EXCEPT ![p] = RefAdd(old)]
          /\ IF IS_PAGE_LOCKED(old)
             THEN Goto(t, [Me(t) EXCEPT !.pc = "a_undo"])
             ELSE \E h \in 0 .. MaxHash :
                    Goto(t, [Me(t) EXCEPT
                               !.submap_start_idx = h % SUBMAP_COUNT,
                               !.sub_i = 0, !.pc = "a_load"])
    /\ UNCHANGED <<obj_size, virt_page_count, bitmaps, allocated_slot_count,
                   phys_page_count_flag, phys_page_count, outstanding, hist>>

\* Mutant of TryRefUndo: the reference taken on the locked page is kept.
TryRefUndoNone(t) ==
    /\ At(t, "a_undo")
    /\ Goto(t, NextPage(Me(t)))
    /\ UNCHANGED <<slab, outstanding, hist>>

\* try_ref_page on a locked page: atomic_fetch_sub, return false; continue
TryRefUndo(t) ==
    /\ At(t, "a_undo")
    /\ LET p == Me(t).page_idx
       IN page_lock_refs' =
             [page_lock_refs EXCEPT ![p] = RefSub(page_lock_refs[p])]
    /\ Goto(t, NextPage(Me(t)))
    /\ UNCHANGED <<obj_size, virt_page_count, bitmaps, allocated_slot_count,
                   phys_page_count_flag, phys_page_count, outstanding, hist>>

\* oldv = atomic_load(&bitmaps[page_idx].submap[submap_idx])
AllocLoad(t) ==
    /\ At(t, "a_load")
    /\ LET w == bitmaps[Me(t).page_idx][SubmapIdx(Me(t))]
       IN Goto(t, IF w = ALL_ONES
                  THEN NextSubmap(Me(t))
                  ELSE [Me(t) EXCEPT !.oldv = w, !.pc = "a_cas"])
    /\ UNCHANGED <<slab, outstanding, hist>>

\* The pointer bmslab_alloc returns for (page_idx, slot_idx)
SlotPtr(page_idx, slot_idx) == page_start(page_idx) + slot_idx * obj_size

\* Mutant of AllocCas: newv is stored without comparing the word with oldv.
AllocCasBlind(t) ==
    /\ At(t, "a_cas")
    /\ LET p == Me(t).page_idx
           s == SubmapIdx(Me(t))
           bit_idx == CtzNot(Me(t).oldv)
           newv == Me(t).oldv \cup {bit_idx}
           slot_idx == bit_idx * SUBMAP_COUNT + s
       IN /\ bitmaps' = [bitmaps EXCEPT ![p][s] = newv]
          /\ Goto(t, IF slot_idx < slot_count_per_page
                     THEN [Idle EXCEPT !.pc = "a_inc",
                                       !.ptr = SlotPtr(p, slot_idx)]
                     ELSE [Idle EXCEPT !.pc = "abort"])
    /\ UNCHANGED <<obj_size, virt_page_count, page_lock_refs,
                   allocated_slot_count, phys_page_count_flag,
                   phys_page_count, outstanding, hist>>

\* atomic_compare_exchange_weak(&submap[submap_idx], &oldv, newv)
AllocCas(t) ==
    /\ At(t, "a_cas")
    /\ LET p == Me(t).page_idx
           s == SubmapIdx(Me(t))
           bit_idx == CtzNot(Me(t).oldv)
           newv == Me(t).oldv \cup {bit_idx}
           slot_idx == bit_idx * SUBMAP_COUNT + s
       IN IF bitmaps[p][s] = Me(t).oldv
          THEN /\ bitmaps' = [bitmaps EXCEPT ![p][s] = newv]
               /\ Goto(t, IF slot_idx < slot_count_per_page
                          THEN [Idle EXCEPT !.pc = "a_inc",
                                            !.ptr = SlotPtr(p, slot_idx)]
                          ELSE [Idle EXCEPT !.pc = "abort"])
          ELSE /\ bitmaps' = bitmaps
               /\ Goto(t, NextSubmap(Me(t)))
    /\ UNCHANGED <<obj_size, virt_page_count, page_lock_refs,
                   allocated_slot_count, phys_page_count_flag,
                   phys_page_count, outstanding, hist>>

\* Mutant of AllocCount: the counter is not incremented.
AllocCountNone(t) ==
    /\ At(t, "a_inc")
    /\ Goto(t, [Me(t) EXCEPT !.pc = "e_cnt", !.ra = "succ"])
    /\ UNCHANGED <<slab, outstanding, hist>>

\* atomic_fetch_add(&slab->allocated_slot_count, 1U)
AllocCount(t) ==
    /\ At(t, "a_inc")
    /\ allocated_slot_count' = allocated_slot_count + 1
    /\ Goto(t, [Me(t) EXCEPT !.pc = "e_cnt", !.ra = "succ"])
    /\ UNCHANGED <<obj_size, virt_page_count, bitmaps, page_lock_refs,
                   phys_page_count_flag, phys_page_count, outstanding, hist>>

\* Mutant of AllocUnref: the reference on the page is kept.
AllocUnrefNone(t) ==
    /\ At(t, "a_unref")
    /\ Goto(t, NextPage(Me(t)))
    /\ UNCHANGED <<slab, outstanding, hist>>

\* /* Move to the next page */ atomic_fetch_sub(&page_lock_refs[page_idx], 1U)
AllocUnref(t) ==
    /\ At(t, "a_unref")
    /\ LET p == Me(t).page_idx
       IN page_lock_refs' =
             [page_lock_refs EXCEPT ![p] = RefSub(page_lock_refs[p])]
    /\ Goto(t, NextPage(Me(t)))
    /\ UNCHANGED <<obj_size, virt_page_count, bitmaps, allocated_slot_count,
                   phys_page_count_flag, phys_page_count, outstanding, hist>>

\* if (phys_page_count < virt_page_count) { expand; goto retry; } return NULL
AllocCheck(t) ==
    /\ At(t, "a_chk")
    /\ Goto(t, IF phys_page_count < virt_page_count
               THEN [Idle EXCEPT !.pc = "e_cnt", !.ra = "retry"]
               ELSE [Idle EXCEPT !.pc = "a_ret", !.ptr = NULL])
    /\ UNCHANGED <<slab, outstanding, hist>>

\* bmslab_alloc returns thr[t].ptr to its caller
AllocReturn(t) ==
    /\ At(t, "a_ret")
    /\ outstanding' = IF Me(t).ptr = NULL THEN outstanding
                      ELSE outstanding (+) SetToBag({Me(t).ptr})
    /\ Goto(t, Idle)
    /\ hist' = IF Sequential
               THEN HistAllocReturn(hist, Me(t).ptr,
                                    BagCardinality(outstanding'))
               ELSE hist
    /\ UNCHANGED slab

-----------------------------------------------------------------------------
(* adaptive_phys_page_expand *)

\* slot_count = atomic_load(&slab->allocated_slot_count)
ExpandLoadCount(t) ==
    /\ At(t, "e_cnt")
    /\ Goto(t, [Me(t) EXCEPT !.slot_count = allocated_slot_count,
                             !.pc = "e_max"])
    /\ UNCHANGED <<slab, outstanding, hist>>

\* get_max_slot_count(slab)
get_max_slot_count == phys_page_count * slot_count_per_page

\* max_slot_count = get_max_slot_count(slab); threshold test
ExpandThreshold(t) ==
    /\ At(t, "e_max")
    /\ Goto(t, IF U32Less(Me(t).slot_count,
                          PAGE_EXPAND_THRESHOLD(get_max_slot_count))
               THEN ExpandReturn(Me(t))
               ELSE [Me(t) EXCEPT !.slot_count = 0, !.pc = "e_cas"])
    /\ UNCHANGED <<slab, outstanding, hist>>

\* Mutant of ExpandCasFlag: a thread that finds the flag set clears it
\* before it returns.
ExpandCasFlagReset(t) ==
    /\ At(t, "e_cas")
    /\ IF phys_page_count_flag = 0
       THEN /\ phys_page_count_flag' = 1
            /\ Goto(t, [Me(t) EXCEPT !.pc = "e_phys"])
       ELSE /\ phys_page_count_flag' = 0
            /\ Goto(t, ExpandReturn(Me(t)))
    /\ UNCHANGED <<obj_size, virt_page_count, bitmaps, page_lock_refs,
                   allocated_slot_count, phys_page_count, outstanding, hist>>

\* atomic_compare_exchange_weak(&phys_page_count_flag, &expected, 1)
ExpandCasFlag(t) ==
    /\ At(t, "e_cas")
    /\ IF phys_page_count_flag = 0
       THEN /\ phys_page_count_flag' = 1
            /\ Goto(t, [Me(t) EXCEPT !.pc = "e_phys"])
       ELSE /\ phys_page_count_flag' = phys_page_count_flag
            /\ Goto(t, ExpandReturn(Me(t)))
    /\ UNCHANGED <<obj_size, virt_page_count, bitmaps, page_lock_refs,
                   allocated_slot_count, phys_page_count, outstanding, hist>>

\* Mutant of ExpandCheck: the page is added without comparing
\* phys_page_count with virt_page_count.
ExpandCheckNone(t) ==
    /\ At(t, "e_phys")
    /\ Goto(t, [Me(t) EXCEPT !.pc = "e_add"])
    /\ UNCHANGED <<slab, outstanding, hist>>

\* if (phys_page_count < virt_page_count)
ExpandCheck(t) ==
    /\ At(t, "e_phys")
    /\ Goto(t, IF phys_page_count < virt_page_count
               THEN [Me(t) EXCEPT !.pc = "e_add"]
               ELSE [Me(t) EXCEPT !.pc = "e_rel"])
    /\ UNCHANGED <<slab, outstanding, hist>>

\* new_page_idx = atomic_fetch_add(&slab->phys_page_count, 1U)
ExpandAdd(t) ==
    /\ At(t, "e_add")
    /\ phys_page_count' = phys_page_count + 1
    /\ Goto(t, [Me(t) EXCEPT !.idx = phys_page_count, !.pc = "e_unlock"])
    /\ UNCHANGED <<obj_size, virt_page_count, bitmaps, page_lock_refs,
                   allocated_slot_count, phys_page_count_flag, outstanding, hist>>

\* Mutant of ExpandUnlock: the lock bit of the new page is left as it is.
ExpandUnlockNone(t) ==
    /\ At(t, "e_unlock")
    /\ Goto(t, [Me(t) EXCEPT !.idx = 0, !.pc = "e_rel"])
    /\ UNCHANGED <<slab, outstanding, hist>>

\* unlock_page(slab, new_page_idx)
ExpandUnlock(t) ==
    /\ At(t, "e_unlock")
    /\ page_lock_refs' =
          [page_lock_refs EXCEPT ![Me(t).idx].lock = FALSE]
    /\ Goto(t, [Me(t) EXCEPT !.idx = 0, !.pc = "e_rel"])
    /\ UNCHANGED <<obj_size, virt_page_count, bitmaps, allocated_slot_count,
                   phys_page_count_flag, phys_page_count, outstanding, hist>>

\* atomic_store(&slab->phys_page_count_flag, 0)
ExpandRelease(t) ==
    /\ At(t, "e_rel")
    /\ phys_page_count_flag' = 0
    /\ Goto(t, ExpandReturn(Me(t)))
    /\ UNCHANGED <<obj_size, virt_page_count, bitmaps, page_lock_refs,
                   allocated_slot_count, phys_page_count, outstanding, hist>>

-----------------------------------------------------------------------------
(* bmslab_free *)

\* page_idx = diff >> PAGE_SHIFT
FreePageIdx(ptr) == Shr(ptr, PAGE_SHIFT)

\* Mutant of FreeSlotIdx: the offset from the base of the instance is
\* divided, not the offset in the page.
FreeSlotIdxNoBase(ptr) == ptr \div obj_size

\* slot_idx = (int)(offset / slab->obj_size), offset = ptr - page_base
FreeSlotIdx(ptr) == (ptr - Shl(FreePageIdx(ptr), PAGE_SHIFT)) \div obj_size

FreeSubmapIdx(ptr) == FreeSlotIdx(ptr) % SUBMAP_COUNT

FreeBitIdx(ptr) == FreeSlotIdx(ptr) \div SUBMAP_COUNT

\* bmslab_free(slab, ptr) up to its first atomic operation: the range check
\* and the assert
FreeEnter(t, ptr) ==
    Goto(t, IF FreePageIdx(ptr) >= virt_page_count
            THEN Idle
            ELSE IF FreeSlotIdx(ptr) < slot_count_per_page
                 THEN [Idle EXCEPT !.pc = "f_and", !.ptr = ptr]
                 ELSE [Idle EXCEPT !.pc = "abort"])

\* A caller passes ptr, a pointer it holds, to bmslab_free
FreeHeld(t, ptr) ==
    /\ At(t, "idle")
    /\ BagIn(ptr, outstanding)
    /\ outstanding' = outstanding (-) SetToBag({ptr})
    /\ FreeEnter(t, ptr)
    /\ hist' = IF Sequential THEN HistFreeCall(hist, ptr) ELSE hist
    /\ UNCHANGED slab

\* A caller frees any pointer it holds
FreeCall(t) ==
    \E ptr \in BagToSet(outstanding) : FreeHeld(t, ptr)

\* A caller frees, of the pointers it holds on some page, the one with
\* the highest address
FreeCallTop(t) ==
    \E ptr \in BagToSet(outstanding) :
        /\ \A q \in BagToSet(outstanding) :
              FreePageIdx(q) = FreePageIdx(ptr) => q <= ptr
        /\ FreeHeld(t, ptr)

\* Mutant of FreeClear: the bit of the slot is left set.
FreeClearNone(t) ==
    /\ At(t, "f_and")
    /\ Goto(t, [Me(t) EXCEPT !.pc = "f_dec"])
    /\ UNCHANGED <<slab, outstanding, hist>>

\* Mutant of FreeClear: the bit is cleared in the bitmap of page 0.
FreeClearPage0(t) ==
    /\ At(t, "f_and")
    /\ LET ptr == Me(t).ptr
           s == FreeSubmapIdx(ptr)
       IN bitmaps' = [bitmaps EXCEPT ![0][s] = @ \ {FreeBitIdx(ptr)}]
    /\ Goto(t, [Me(t) EXCEPT !.pc = "f_dec"])
    /\ UNCHANGED <<obj_size, virt_page_count, page_lock_refs,
                   allocated_slot_count, phys_page_count_flag,
                   phys_page_count, outstanding, hist>>

\* Mutant of FreeClear: the mask is 0, the whole word is cleared.
FreeClearWord(t) ==
    /\ At(t, "f_and")
    /\ LET ptr == Me(t).ptr
           p == FreePageIdx(ptr)
           s == FreeSubmapIdx(ptr)
       IN bitmaps' = [bitmaps EXCEPT ![p][s] = {}]
    /\ Goto(t, [Me(t) EXCEPT !.pc = "f_dec"])
    /\ UNCHANGED <<obj_size, virt_page_count, page_lock_refs,
                   allocated_slot_count, phys_page_count_flag,
                   phys_page_count, outstanding, hist>>

\* atomic_fetch_and(&submap[submap_idx], ~(1U << bit_idx))
FreeClear(t) ==
    /\ At(t, "f_and")
    /\ LET ptr == Me(t).ptr
           p == FreePageIdx(ptr)
           s == FreeSubmapIdx(ptr)
       IN bitmaps' = [bitmaps EXCEPT ![p][s] = @ \ {FreeBitIdx(ptr)}]
    /\ Goto(t, [Me(t) EXCEPT !.pc = "f_dec"])
    /\ UNCHANGED <<obj_size, virt_page_count, page_lock_refs,
                   allocated_slot_count, phys_page_count_flag,
                   phys_page_count, outstanding, hist>>

\* Mutant of FreeCount: the counter is not decremented.
FreeCountNone(t) ==
    /\ At(t, "f_dec")
    /\ Goto(t, [Me(t) EXCEPT !.pc = "f_unref"])
    /\ UNCHANGED <<slab, outstanding, hist>>

\* atomic_fetch_sub(&slab->allocated_slot_count, 1U)
FreeCount(t) ==
    /\ At(t, "f_dec")
    /\ allocated_slot_count' = allocated_slot_count - 1
    /\ Goto(t, [Me(t) EXCEPT !.pc = "f_unref"])
    /\ UNCHANGED <<obj_size, virt_page_count, bitmaps, page_lock_refs,
                   phys_page_count_flag, phys_page_count, outstanding, hist>>

\* atomic_fetch_sub(&slab->page_lock_refs[page_idx], 1)
FreeUnref(t) ==
    /\ At(t, "f_unref")
    /\ LET p == FreePageIdx(Me(t).ptr)
       IN page_lock_refs' =
             [page_lock_refs EXCEPT ![p] = RefSub(page_lock_refs[p])]
    /\ Goto(t, [Idle EXCEPT !.pc = "s_cnt"])
    /\ UNCHANGED <<obj_size, virt_page_count, bitmaps, allocated_slot_count,
                   phys_page_count_flag, phys_page_count, outstanding, hist>>

-----------------------------------------------------------------------------
(* adaptive_phys_page_shrink *)

\* slot_count = atomic_load(&slab->allocated_slot_count)
ShrinkLoadCount(t) ==
    /\ At(t, "s_cnt")
    /\ Goto(t, [Me(t) EXCEPT !.slot_count = allocated_slot_count,
                             !.pc = "s_max"])
    /\ UNCHANGED <<slab, outstanding, hist>>

\* Mutant of ShrinkThreshold: the shrink goes on whatever the counter.
ShrinkThresholdNone(t) ==
    /\ At(t, "s_max")
    /\ Goto(t, [Idle EXCEPT !.pc = "s_cas"])
    /\ UNCHANGED <<slab, outstanding, hist>>

\* max_slot_count = get_max_slot_count(slab); threshold test
ShrinkThreshold(t) ==
    /\ At(t, "s_max")
    /\ Goto(t, IF U32Less(PAGE_SHRINK_THRESHOLD(get_max_slot_count),
                          Me(t).slot_count)
               THEN Idle
               ELSE [Idle EXCEPT !.pc = "s_cas"])
    /\ UNCHANGED <<slab, outstanding, hist>>

\* Mutant of ShrinkCasFlag: 1 is stored without comparing the flag with 0.
ShrinkCasFlagBlind(t) ==
    /\ At(t, "s_cas")
    /\ phys_page_count_flag' = 1
    /\ Goto(t, [Me(t) EXCEPT !.pc = "s_last"])
    /\ UNCHANGED <<obj_size, virt_page_count, bitmaps, page_lock_refs,
                   allocated_slot_count, phys_page_count, outstanding, hist>>

\* atomic_compare_exchange_weak(&phys_page_count_flag, &expected, 1)
ShrinkCasFlag(t) ==
    /\ At(t, "s_cas")
    /\ IF phys_page_count_flag = 0
       THEN /\ phys_page_count_flag' = 1
            /\ Goto(t, [Me(t) EXCEPT !.pc = "s_last"])
       ELSE /\ phys_page_count_flag' = phys_page_count_flag
            /\ Goto(t, Idle)
    /\ UNCHANGED <<obj_size, virt_page_count, bitmaps, page_lock_refs,
                   allocated_slot_count, phys_page_count, outstanding, hist>>

\* Mutant of ShrinkLast: last_page_idx is not compared with 0.
ShrinkLastAny(t) ==
    /\ At(t, "s_last")
    /\ Goto(t, [Me(t) EXCEPT !.idx = phys_page_count - 1, !.pc = "s_lock"])
    /\ UNCHANGED <<slab, outstanding, hist>>

\* last_page_idx = atomic_load(&slab->phys_page_count) - 1
ShrinkLast(t) ==
    /\ At(t, "s_last")
    /\ Goto(t, IF phys_page_count - 1 = 0
               THEN [Me(t) EXCEPT !.pc = "s_rel"]
               ELSE [Me(t) EXCEPT !.idx = phys_page_count - 1,
                                  !.pc = "s_lock"])
    /\ UNCHANGED <<slab, outstanding, hist>>

\* lock_page(slab, last_page_idx); atomic_thread_fence
ShrinkLock(t) ==
    /\ At(t, "s_lock")
    /\ page_lock_refs' =
          [page_lock_refs EXCEPT ![Me(t).idx].lock = TRUE]
    /\ Goto(t, [Me(t) EXCEPT !.pc = "s_load"])
    /\ UNCHANGED <<obj_size, virt_page_count, bitmaps, allocated_slot_count,
                   phys_page_count_flag, phys_page_count, outstanding, hist>>

\* Mutant of ShrinkLoadRef: a page that has not drained is locked and
\* loaded again until it has.
ShrinkLoadRefRetry(t) ==
    /\ At(t, "s_load")
    /\ Goto(t, IF is_page_reclaimable(page_lock_refs[Me(t).idx])
               THEN [Me(t) EXCEPT !.pc = "s_madv"]
               ELSE [Me(t) EXCEPT !.pc = "s_lock"])
    /\ UNCHANGED <<slab, outstanding, hist>>

\* Mutant of ShrinkLoadRef: the page is released whatever its reference
\* count.
ShrinkLoadRefAlways(t) ==
    /\ At(t, "s_load")
    /\ Goto(t, [Me(t) EXCEPT !.pc = "s_madv"])
    /\ UNCHANGED <<slab, outstanding, hist>>

\* Mutant of ShrinkLoadRef: a page that has not drained is unlocked again.
ShrinkLoadRefUnlock(t) ==
    /\ At(t, "s_load")
    /\ IF is_page_reclaimable(page_lock_refs[Me(t).idx])
       THEN /\ Goto(t, [Me(t) EXCEPT !.pc = "s_madv"])
            /\ page_lock_refs' = page_lock_refs
       ELSE /\ Goto(t, [Me(t) EXCEPT !.idx = 0, !.pc = "s_rel"])
            /\ page_lock_refs' =
                  [page_lock_refs EXCEPT ![Me(t).idx].lock = FALSE]
    /\ UNCHANGED <<obj_size, virt_page_count, bitmaps, allocated_slot_count,
                   phys_page_count_flag, phys_page_count, outstanding, hist>>

\* Mutant of ShrinkLoadRef: a failed drain returns without the store to
\* the flag.
ShrinkLoadRefLeak(t) ==
    /\ At(t, "s_load")
    /\ Goto(t, IF is_page_reclaimable(page_lock_refs[Me(t).idx])
               THEN [Me(t) EXCEPT !.pc = "s_madv"]
               ELSE Idle)
    /\ UNCHANGED <<slab, outstanding, hist>>

\* page_lock_ref = atomic_load(&page_lock_refs[last_page_idx])
ShrinkLoadRef(t) ==
    /\ At(t, "s_load")
    /\ Goto(t, IF is_page_reclaimable(page_lock_refs[Me(t).idx])
               THEN [Me(t) EXCEPT !.pc = "s_madv"]
               ELSE [Me(t) EXCEPT !.idx = 0, !.pc = "s_rel"])
    /\ UNCHANGED <<slab, outstanding, hist>>

\* madvise(page_start(slab, last_page_idx), PAGE_SIZE, MADV_FREE)
ShrinkMadvise(t) ==
    /\ At(t, "s_madv")
    /\ Goto(t, [Me(t) EXCEPT !.pc = "s_sub"])
    /\ UNCHANGED <<slab, outstanding, hist>>

\* Mutant of ShrinkSub: phys_page_count is not decremented.
ShrinkSubNone(t) ==
    /\ At(t, "s_sub")
    /\ Goto(t, [Me(t) EXCEPT !.idx = 0, !.pc = "s_rel"])
    /\ UNCHANGED <<slab, outstanding, hist>>

\* Mutant of ShrinkSub: the page count is incremented.
ShrinkSubAdd(t) ==
    /\ At(t, "s_sub")
    /\ phys_page_count' = phys_page_count + 1
    /\ Goto(t, [Me(t) EXCEPT !.idx = 0, !.pc = "s_rel"])
    /\ UNCHANGED <<obj_size, virt_page_count, bitmaps, page_lock_refs,
                   allocated_slot_count, phys_page_count_flag, outstanding, hist>>

\* atomic_fetch_sub(&slab->phys_page_count, 1U)
ShrinkSub(t) ==
    /\ At(t, "s_sub")
    /\ phys_page_count' = phys_page_count - 1
    /\ Goto(t, [Me(t) EXCEPT !.idx = 0, !.pc = "s_rel"])
    /\ UNCHANGED <<obj_size, virt_page_count, bitmaps, page_lock_refs,
                   allocated_slot_count, phys_page_count_flag, outstanding, hist>>

\* atomic_store(&slab->phys_page_count_flag, 0)
ShrinkRelease(t) ==
    /\ At(t, "s_rel")
    /\ phys_page_count_flag' = 0
    /\ Goto(t, Idle)
    /\ UNCHANGED <<obj_size, virt_page_count, bitmaps, page_lock_refs,
                   allocated_slot_count, phys_page_count, outstanding, hist>>

-----------------------------------------------------------------------------
(* bmslab_free of pointers the instance never returned *)

\* (uintptr_t)ptr - base is a 64-bit value.  It is written as its digits
\* in base 2^PAGE_SHIFT, lowest first: d[1] is bits 0..11 (the offset in
\* the page), d[2] bits 12..23, d[3] bits 24..35, d[4] bits 36..47,
\* d[5] bits 48..59, d[6] bits 60..63.

\* page_idx = diff >> PAGE_SHIFT, stored in a uint32_t: bits 12..43 of diff.
\* top is its bits 24..31, low its bits 0..23.
WidePageIdx(d) == [top |-> d[4] % 256, low |-> d[2] + PAGE_SIZE * (d[3] % 4096)]

\* page_idx >= slab->virt_page_count
WideOutOfRange(d) ==
    LET page_idx == WidePageIdx(d)
        vtop == virt_page_count \div (2 ^ 24)
    IN IF page_idx.top # vtop THEN page_idx.top > vtop
       ELSE page_idx.low >= virt_page_count % (2 ^ 24)

\* offset = ptr - page_base, page_base = base + (page_idx << PAGE_SHIFT):
\* bits 12..43 of diff are subtracted from it
WideOffset(d) == <<d[1], 0, 0, d[4] - (d[4] % 256), d[5], d[6]>>

\* One step of the division of offset by obj_size, from the highest digit
DivStep(r, digit) ==
    [q |-> (r * PAGE_SIZE + digit) \div obj_size,
     r |-> (r * PAGE_SIZE + digit) % obj_size]

\* slot_idx = (int)(offset / slab->obj_size), stored in a uint32_t: the low
\* 32 bits of the quotient (top: bits 24..31, low: bits 0..23)
WideSlotIdx(d) ==
    LET off == WideOffset(d)
        s6 == DivStep(0, off[6])
        s5 == DivStep(s6.r, off[5])
        s4 == DivStep(s5.r, off[4])
        s3 == DivStep(s4.r, off[3])
        s2 == DivStep(s3.r, off[2])
        s1 == DivStep(s2.r, off[1])
    IN [top |-> s3.q % 256, low |-> s1.q + PAGE_SIZE * s2.q]

\* allocated_slot_count still agrees with the number of pointers the
\* callers hold (the callers of the model stop passing pointers they do
\* not hold once it does not).
Intact == allocated_slot_count = BagCardinality(outstanding)

\* bmslab_free(slab, ptr) up to its first atomic operation, for ptr at the
\* 64-bit distance d from base
FreeWide(t, d) ==
    /\ At(t, "idle")
    /\ Goto(t, IF WideOutOfRange(d)
               THEN Idle
               ELSE IF WideSlotIdx(d).top = 0
                       /\ WideSlotIdx(d).low < slot_count_per_page
                    THEN [Idle EXCEPT
                            !.pc = "f_and",
                            !.ptr = page_start(WidePageIdx(d).low)
                                      + WideSlotIdx(d).low * obj_size]
                    ELSE [Idle EXCEPT !.pc = "abort"])
    /\ hist' = [only_alloc |-> FALSE, phase |-> "none", p |-> NULL]
    /\ UNCHANGED <<slab, outstanding>>

\* Distances from base of pointers outside [base, base + virt * 4096):
\* base - 1, the end of the range, one byte past it, base + 2^44 + an
\* offset into the range, base - 2^44.
ForeignDiffs ==
    { <<4095, 4095, 4095, 4095, 4095, 15>>,
      <<0, virt_page_count, 0, 0, 0, 0>>,
      <<1, virt_page_count, 0, 0, 0, 0>>,
      <<0, 0, 0, 3840, 4095, 15>> }
    \cup { <<o, p, 0, 256, 0, 0>> : o \in {0, 1000}, p \in Pages }

\* A caller passes a pointer from outside the range to bmslab_free
FreeForeign(t) ==
    /\ Intact
    /\ \E d \in ForeignDiffs :
          /\ FreeWide(t, d)
          /\ api' = [call |-> "bmslab_free", args |-> <<"foreign", d>>,
                     ret |-> NULL, snap |-> slab]

\* The pointers to the slots of the instance
SlotPtrs ==
    { SlotPtr(p, s) : p \in Pages, s \in 0 .. (slot_count_per_page - 1) }

\* A caller passes to bmslab_free a pointer into the range that is not
\* outstanding: a pointer it has freed already, or never got
FreeStale(t) ==
    /\ Intact
    /\ At(t, "idle")
    /\ \E ptr \in SlotPtrs :
          /\ ~BagIn(ptr, outstanding)
          /\ FreeEnter(t, ptr)
          /\ api' = [call |-> "bmslab_free", args |-> <<"stale", ptr>>,
                     ret |-> NULL, snap |-> slab]
    /\ hist' = [only_alloc |-> FALSE, phase |-> "none", p |-> NULL]
    /\ UNCHANGED <<slab, outstanding>>

-----------------------------------------------------------------------------
(* Null arguments *)

\* Mutant of FreeNullCheck: only the handle is tested.
FreeNullCheckHandle(slab_is_null, ptr) == slab_is_null

\* if (slab == NULL || ptr == NULL) return;
FreeNullCheck(slab_is_null, ptr) == slab_is_null \/ ptr = NULL

\* Distances of the address 0 from base, for base = 2^44 and base = 4096
NullDiffs == { <<0, 0, 0, 3840, 4095, 15>>, <<0, 4095, 4095, 4095, 4095, 15>> }

\* bmslab_free(NULL, ptr), bmslab_free(slab, NULL), bmslab_free(NULL, NULL)
FreeNull(t) ==
    /\ At(t, "idle")
    /\ \E slab_is_null \in BOOLEAN, ptr \in {NULL} \cup BagToSet(outstanding) :
          /\ slab_is_null \/ ptr = NULL
          /\ api' = [call |-> "bmslab_free",
                     args |-> <<"null", slab_is_null, ptr>>,
                     ret |-> NULL, snap |-> slab]
          /\ IF FreeNullCheck(slab_is_null, ptr)
             THEN UNCHANGED <<slab, thr, outstanding, hist>>
             ELSE \E d \in NullDiffs : FreeWide(t, d)

\* bmslab_alloc(NULL): if (slab == NULL) return NULL;
AllocNull(t) ==
    /\ At(t, "idle")
    /\ api' = [call |-> "bmslab_alloc", args |-> <<"null", NULL>>,
               ret |-> NULL, snap |-> slab]
    /\ UNCHANGED <<slab, thr, outstanding, hist>>

\* bmslab_destroy(NULL): if (slab == NULL) return;
DestroyNull(t) ==
    /\ At(t, "idle")
    /\ api' = [call |-> "bmslab_destroy", args |-> <<"null", NULL>>,
               ret |-> NULL, snap |-> slab]
    /\ UNCHANGED <<slab, thr, outstanding, hist>>

-----------------------------------------------------------------------------
(* Statistics *)

\* return atomic_load(&slab->phys_page_count_flag);
get_bmslab_phys_page_count == phys_page_count_flag

\* return atomic_load(&slab->allocated_slot_count); as an int
get_bmslab_allocated_slots == allocated_slot_count

StatsPhys(t) ==
    /\ At(t, "idle")
    /\ api' = [call |-> "get_bmslab_phys_page_count", args |-> <<>>,
               ret |-> get_bmslab_phys_page_count, snap |-> slab]
    /\ UNCHANGED <<slab, thr, outstanding, hist>>

StatsSlots(t) ==
    /\ At(t, "idle")
    /\ api' = [call |-> "get_bmslab_allocated_slots", args |-> <<>>,
               ret |-> get_bmslab_allocated_slots, snap |-> slab]
    /\ UNCHANGED <<slab, thr, outstanding, hist>>

-----------------------------------------------------------------------------
(* bmslab_init as a function of its arguments *)

\* slab->virt_page_count * PAGE_SIZE, the length passed to mmap, in pages:
\* the product is a uint32_t, so it is the low 20 bits of virt_page_count
\* times 4096.
MmapPages(max_page_count) == max_page_count % (2 ^ 20)

\* What bmslab_init(size, max_page_count) returns when calloc and mmap
\* succeed (mem) or fail: NULL (null is TRUE) or the fields of the new
\* instance.  A negative max_page_count stored in the uint32_t
\* virt_page_count is 2^32 - k, written -k.  mmap fails for length 0.
bmslab_init_ret(size, max_page_count, mem) ==
    IF size < 8 \/ size > PAGE_SIZE THEN [null |-> TRUE]
    ELSE IF max_page_count = 0 THEN [null |-> TRUE]
    ELSE IF ~mem \/ MmapPages(max_page_count) = 0 THEN [null |-> TRUE]
    ELSE [null |-> FALSE,
          phys_page_count_flag |-> 0,
          virt_page_count |-> max_page_count,
          phys_page_count |-> 1,
          allocated_slot_count |-> 0,
          obj_size |-> size,
          slot_count_per_page |-> PAGE_SIZE \div size,
          mmap_pages |-> MmapPages(max_page_count)]

InitSizes == {7, 8, 64, 4096, 4097}

InitMaxes == {-1, 0, 1, 2, 1048576, 1048577}

\* A caller creates another instance
InitCall(t) ==
    /\ At(t, "idle")
    /\ \E size \in InitSizes, max_page_count \in InitMaxes, mem \in BOOLEAN :
          api' = [call |-> "bmslab_init", args |-> <<size, max_page_count>>,
                  ret |-> bmslab_init_ret(size, max_page_count, mem),
                  snap |-> slab]
    /\ UNCHANGED <<slab, thr, outstanding, hist>>

-----------------------------------------------------------------------------
(* Specifications *)

\* A failed assert ends the process.
Aborted == \E t \in DOMAIN thr : thr[t].pc = "abort"

\* The steps inside a call
Work(t) ==
    \/ AllocRetry(t)
    \/ AllocLoop(t)
    \/ AllocPageIdx(t)
    \/ TryRefPage(t)
    \/ TryRefUndo(t)
    \/ AllocLoad(t)
    \/ AllocCas(t)
    \/ AllocCount(t)
    \/ AllocUnref(t)
    \/ AllocCheck(t)
    \/ AllocReturn(t)
    \/ ExpandLoadCount(t)
    \/ ExpandThreshold(t)
    \/ ExpandCasFlag(t)
    \/ ExpandCheck(t)
    \/ ExpandAdd(t)
    \/ ExpandUnlock(t)
    \/ ExpandRelease(t)
    \/ FreeClear(t)
    \/ FreeCount(t)
    \/ FreeUnref(t)
    \/ ShrinkLoadCount(t)
    \/ ShrinkThreshold(t)
    \/ ShrinkCasFlag(t)
    \/ ShrinkLast(t)
    \/ ShrinkLock(t)
    \/ ShrinkLoadRef(t)
    \/ ShrinkMadvise(t)
    \/ ShrinkSub(t)
    \/ ShrinkRelease(t)

Next ==
    /\ ~Aborted
    /\ \E t \in DOMAIN thr : AllocCall(t) \/ FreeCall(t) \/ Work(t)
    /\ UNCHANGED api

\* Concurrent callers on one instance.
ObjSizes == {4096, 2000}

Init ==
    \E size \in ObjSizes, max_page_count \in 1 .. MaxPages :
        bmslab_init(size, max_page_count, NumThreads)

Spec == Init /\ [][Next]_vars

\* One caller, one call at a time.
SeqObjSizes == {4096, 1000}

SeqMaxPages == 3

SeqInit ==
    \E size \in SeqObjSizes, max_page_count \in 1 .. SeqMaxPages :
        bmslab_init(size, max_page_count, 1)

SeqSpec == SeqInit /\ [][Next]_vars

\* One caller on an instance of LoopPages pages that frees the highest
\* pointer of a page; a call that has started keeps taking steps.
LoopObjSize == 1000

LoopPages == 4

LoopInit == bmslab_init(LoopObjSize, LoopPages, 1)

LoopNext ==
    /\ ~Aborted
    /\ \E t \in DOMAIN thr : AllocCall(t) \/ FreeCallTop(t) \/ Work(t)
    /\ UNCHANGED api

LoopSpec ==
    /\ LoopInit
    /\ [][LoopNext]_vars
    /\ WF_vars((\E t \in DOMAIN thr : Work(t)) /\ UNCHANGED api)

\* One caller that also passes null arguments, reads the statistics and
\* creates other instances.
ApiObjSizes == {4096, 1000}

ApiMaxPages == 2

ApiInit ==
    \E size \in ApiObjSizes, max_page_count \in 1 .. ApiMaxPages :
        bmslab_init(size, max_page_count, 1)

ApiNext ==
    /\ ~Aborted
    /\ \E t \in DOMAIN thr :
          \/ (AllocCall(t) \/ FreeCall(t)) /\ api' = NoCall
          \/ Work(t) /\ UNCHANGED api
          \/ FreeNull(t)
          \/ AllocNull(t)
          \/ DestroyNull(t)
          \/ StatsPhys(t)
          \/ StatsSlots(t)
          \/ InitCall(t)

ApiSpec == ApiInit /\ [][ApiNext]_vars

\* One caller that also passes to bmslab_free pointers it does not hold.
MisuseNext ==
    /\ ~Aborted
    /\ \E t \in DOMAIN thr :
          \/ (AllocCall(t) \/ FreeCall(t)) /\ api' = NoCall
          \/ Work(t) /\ UNCHANGED api
          \/ FreeForeign(t)
          \/ FreeStale(t)

MisuseSpec == ApiInit /\ [][MisuseNext]_vars

-----------------------------------------------------------------------------
(* Properties *)

AllocPcs == {"a_retry", "a_loop", "a_pidx", "a_ref", "a_undo", "a_load",
             "a_cas", "a_inc", "a_unref", "a_chk", "a_ret",
             "e_cnt", "e_max", "e_cas", "e_phys", "e_add", "e_unlock",
             "e_rel"}

\* The position of each step of bmslab_free in the text of bmslab_free and
\* adaptive_phys_page_shrink.
FreeRank == [f_and |-> 1, f_dec |-> 2, f_unref |-> 3, s_cnt |-> 4,
             s_max |-> 5, s_cas |-> 6, s_last |-> 7, s_lock |-> 8,
             s_load |-> 9, s_madv |-> 10, s_sub |-> 11, s_rel |-> 12]

FreePcs == DOMAIN FreeRank

\* No thread is inside bmslab_alloc or bmslab_free.
Quiescent == \A t \in DOMAIN thr : thr[t].pc = "idle"

\* Thread t has claimed a slot by a successful CAS and has not returned yet.
Claimed(t) == thr[t].pc \in AllocPcs /\ thr[t].ptr # NULL

\* The bits that are 1, over all words of all pages.
UsedBits ==
    { w \in Pages \X (0 .. (SUBMAP_COUNT - 1)) \X (0 .. (WORD_BITS - 1)) :
        w[3] \in bitmaps[w[1]][w[2]] }

\* The bits of slots that do not exist: 512 - slot_count_per_page a page.
SentinelBits ==
    virt_page_count * (SUBMAP_COUNT * WORD_BITS - slot_count_per_page)

\* Every real slot of every live page is used.
AllLiveFull ==
    \A p \in 0 .. (phys_page_count - 1) :
        \A s \in 0 .. (SUBMAP_COUNT - 1) : bitmaps[p][s] = ALL_ONES

WellFormed(p) ==
    /\ 0 <= p
    /\ p < virt_page_count * PAGE_SIZE
    /\ (p % PAGE_SIZE) % obj_size = 0
    /\ (p % PAGE_SIZE) < slot_count_per_page * obj_size

\* C1: no pointer is held twice: every outstanding pointer is outstanding
\* once, and no alloc call in flight has claimed the slot of an outstanding
\* pointer or the slot another call in flight has claimed.
C1_MutualExclusion ==
    /\ \A p \in BagToSet(outstanding) : CopiesIn(p, outstanding) = 1
    /\ \A t \in DOMAIN thr :
         Claimed(t) =>
           /\ ~BagIn(thr[t].ptr, outstanding)
           /\ \A u \in DOMAIN thr \ {t} :
                Claimed(u) => thr[u].ptr # thr[t].ptr

\* Two callers race for the same bit: one holds a slot of the word, and
\* the CAS of the other is about to fail because the word has changed.
C1_Witness ==
    \E t \in DOMAIN thr :
        /\ thr[t].pc = "a_cas"
        /\ bitmaps[thr[t].page_idx][SubmapIdx(thr[t])] # thr[t].oldv
        /\ \E u \in DOMAIN thr \ {t} : Claimed(u)

\* C2: the assert of bmslab_alloc never fails, every page index an alloc
\* uses is below virt_page_count, and every pointer claimed or returned
\* lies in the range, at a multiple of obj_size inside its page, below
\* slot_count_per_page * obj_size.
C2_WellFormed ==
    /\ ~Aborted
    /\ \A t \in DOMAIN thr : thr[t].page_idx < virt_page_count
    /\ \A p \in BagToSet(outstanding) : WellFormed(p)
    /\ \A t \in DOMAIN thr : Claimed(t) => WellFormed(thr[t].ptr)

\* The last slot of the second page has been returned.
C2_Witness ==
    \E p \in BagToSet(outstanding) :
        /\ p >= PAGE_SIZE
        /\ p % PAGE_SIZE = (slot_count_per_page - 1) * obj_size
        /\ p % PAGE_SIZE > 0

\* The bitmaps as they were before the call of thread t claimed its slot.
FullBeforeClaim(t) ==
    IF thr[t].ptr = NULL THEN AllLiveFull
    ELSE \A p \in 0 .. (phys_page_count - 1) :
           \A s \in 0 .. (SUBMAP_COUNT - 1) :
              bitmaps[p][s] \ (IF p = FreePageIdx(thr[t].ptr)
                                  /\ s = FreeSubmapIdx(thr[t].ptr)
                               THEN {FreeBitIdx(thr[t].ptr)} ELSE {})
                 = ALL_ONES

\* C3: a sequential bmslab_alloc returns NULL if and only if every real
\* slot of every live page is used and phys_page_count equals
\* virt_page_count.
C3_NullIffFull ==
    \A t \in DOMAIN thr :
        thr[t].pc = "a_ret" =>
            (thr[t].ptr = NULL <=>
                (FullBeforeClaim(t) /\ phys_page_count = virt_page_count))

\* C4: a bmslab_alloc call that runs alone and keeps taking steps returns.
C4_AllocReturns ==
    (thr[1].pc \in AllocPcs) ~> (thr[1].pc = "idle")

\* C5: every step of bmslab_free moves forward in the text of bmslab_free
\* and adaptive_phys_page_shrink (no step is taken twice, so a call takes
\* at most 12 steps), and its next step can always be taken, whatever the
\* other threads have done.
C5_FreeWaitFree ==
    /\ [][\A t \in DOMAIN thr :
            thr[t].pc \in FreePcs =>
              \/ thr'[t] = thr[t]
              \/ thr'[t].pc = "idle"
              \/ /\ thr'[t].pc \in FreePcs
                 /\ FreeRank[thr'[t].pc] > FreeRank[thr[t].pc]]_vars
    /\ [](\A t \in Threads : thr[t].pc \in FreePcs => ENABLED Work(t))

\* A free finds the reference count of the page it has locked non-zero.
C5_Witness ==
    \E t \in DOMAIN thr :
        /\ thr[t].pc = "s_load"
        /\ page_lock_refs[thr[t].idx].ref > 0

\* C6: 1 <= phys_page_count <= virt_page_count.
C6_PhysBounds ==
    /\ 1 <= phys_page_count
    /\ phys_page_count <= virt_page_count

\* A shrink is about to take away a page of an instance that had grown to
\* all its pages.
C6_Witness ==
    \E t \in DOMAIN thr :
        /\ thr[t].pc = "s_sub"
        /\ virt_page_count > 1
        /\ phys_page_count = virt_page_count

\* C7: when no thread is inside a call, allocated_slot_count is the number
\* of 1-bits of all words minus the sentinel bits, and the number of
\* outstanding pointers.
C7_QuiescentCount ==
    Quiescent =>
        /\ allocated_slot_count = Cardinality(UsedBits) - SentinelBits
        /\ allocated_slot_count = BagCardinality(outstanding)

\* Quiescent, with every slot of both pages of an instance outstanding.
C7_Witness ==
    /\ Quiescent
    /\ virt_page_count > 1
    /\ allocated_slot_count = Capacity

\* C8: a single caller that has only called bmslab_alloc gets NULL exactly
\* when Capacity pointers are outstanding, phys_page_count is then
\* virt_page_count, and phys_page_count has grown by one page at a time.
C8_FullCapacity ==
    /\ [](\A t \in {1} :
            (thr[t].pc = "a_ret" /\ hist.only_alloc) =>
               /\ thr[t].ptr = NULL <=>
                     BagCardinality(outstanding) = Capacity
               /\ thr[t].ptr = NULL => phys_page_count = virt_page_count)
    /\ [][hist.only_alloc =>
            phys_page_count' \in {phys_page_count, phys_page_count + 1}]_vars

\* The alloc after the last slot returns NULL on an instance of several
\* pages.
C8_Witness ==
    /\ thr[1].pc = "a_ret"
    /\ hist.only_alloc
    /\ thr[1].ptr = NULL
    /\ virt_page_count > 1
    /\ BagCardinality(outstanding) = Capacity

\* The instance was filled to capacity and every pointer has been freed
\* since, by one caller.
FilledThenFreed ==
    /\ Sequential
    /\ Quiescent
    /\ hist.phase \in {"freed1", "drain"}
    /\ outstanding = EmptyBag

\* C9 as stated: after filling to capacity and freeing everything,
\* allocated_slot_count is 0 and phys_page_count is 1.
C9_ShrinkBackToOne ==
    FilledThenFreed =>
        /\ allocated_slot_count = 0
        /\ phys_page_count = 1

\* C9 as the code has it: after filling to capacity and freeing everything,
\* allocated_slot_count is 0 and phys_page_count is below virt_page_count
\* when there are two pages or more; it is 1 when there are at most two.
C9_ShrinkByOne ==
    FilledThenFreed =>
        /\ allocated_slot_count = 0
        /\ 1 <= phys_page_count
        /\ virt_page_count >= 2 => phys_page_count < virt_page_count
        /\ virt_page_count <= 2 => phys_page_count = 1

\* Everything is freed and two of three pages are still live.
C9_Witness ==
    /\ FilledThenFreed
    /\ virt_page_count = 3
    /\ phys_page_count = 2

\* C10: when every slot was outstanding, one pointer p was freed and
\* bmslab_alloc is called next, by one caller, the call returns p.
C10_RoundTrip ==
    \A t \in DOMAIN thr :
        (thr[t].pc = "a_ret" /\ hist.phase = "realloc") =>
            thr[t].ptr = hist.p

\* The single slot of a one-page instance of 4096-byte objects is
\* returned again.
C10_Witness ==
    /\ thr[1].pc = "a_ret"
    /\ hist.phase = "realloc"
    /\ virt_page_count = 1
    /\ obj_size = PAGE_SIZE
    /\ thr[1].ptr = hist.p
    /\ thr[1].ptr # NULL

\* The last call of the interface was bmslab_free with an argument of
\* this kind ("foreign", "stale", "null").
FreeOf(kind) == api.call = "bmslab_free" /\ api.args[1] = kind

\* C11: bmslab_free of a pointer outside [base, base + virt * 4096) leaves
\* every bitmap word, every page_lock_refs word, allocated_slot_count and
\* phys_page_count as they were at the call.
C11_ForeignRejected ==
    FreeOf("foreign") => slab = api.snap

\* C12: bmslab_free of a pointer into the range that is not outstanding
\* leaves allocated_slot_count, the page_lock_refs words and the bitmaps
\* as they were at the call.
C12_StaleNoop ==
    FreeOf("stale") => slab = api.snap

\* C13: bmslab_init returns NULL whenever obj_size < 8, obj_size > 4096 or
\* max_page_count < 1, and an instance made from arguments inside the
\* preconditions starts with phys_page_count = 1, allocated_slot_count = 0
\* and phys_page_count_flag = 0.
C13_InitValidates ==
    api.call = "bmslab_init" =>
        LET size == api.args[1]
            max_page_count == api.args[2]
            valid == 8 <= size /\ size <= PAGE_SIZE /\ max_page_count >= 1
        IN /\ ~valid => api.ret.null
           /\ (valid /\ ~api.ret.null) =>
                 /\ api.ret.phys_page_count = 1
                 /\ api.ret.allocated_slot_count = 0
                 /\ api.ret.phys_page_count_flag = 0

\* The last call of the interface had a null argument.
NullCall ==
    \/ FreeOf("null")
    \/ api.call \in {"bmslab_alloc", "bmslab_destroy"}

\* C14: bmslab_destroy(NULL), bmslab_alloc(NULL) and bmslab_free with a
\* null handle or a null pointer return at once (NULL for bmslab_alloc)
\* and leave every field of the instance as it was.
C14_NullNoop ==
    NullCall =>
        /\ slab = api.snap
        /\ Quiescent
        /\ api.ret = NULL

\* bmslab_free(slab, NULL) has returned on an instance with a slot
\* allocated.
C14_Witness ==
    /\ FreeOf("null")
    /\ ~api.args[2]
    /\ api.args[3] = NULL
    /\ allocated_slot_count > 0
    /\ Quiescent

\* C15: get_bmslab_phys_page_count returns phys_page_count, a value of
\* 1 .. virt_page_count, and get_bmslab_allocated_slots returns
\* allocated_slot_count.
C15_StatsReal ==
    /\ api.call = "get_bmslab_phys_page_count" =>
          /\ api.ret = phys_page_count
          /\ 1 <= api.ret
          /\ api.ret <= virt_page_count
    /\ api.call = "get_bmslab_allocated_slots" =>
          api.ret = allocated_slot_count

\* C17: for every max_page_count >= 1 that bmslab_init accepts, the length
\* passed to mmap is max_page_count * 4096 (max_page_count pages).
C17_RangeCovers ==
    (api.call = "bmslab_init" /\ api.args[2] >= 1 /\ ~api.ret.null) =>
        api.ret.mmap_pages = api.args[2]

\* C16: a step of a bmslab_alloc call leaves phys_page_count equal or
\* larger, a step of a bmslab_free call leaves it equal or smaller; so it
\* does not decrease while no bmslab_free call is running and does not
\* increase while no bmslab_alloc call is running; and it never goes below
\* 1 (page 0 is never removed).
C16_Direction ==
    [][/\ \A t \in DOMAIN thr :
            thr'[t] # thr[t] =>
              /\ thr[t].pc \in AllocPcs =>
                    phys_page_count' >= phys_page_count
              /\ thr[t].pc \in FreePcs =>
                    phys_page_count' <= phys_page_count
       /\ (\A t \in DOMAIN thr : thr[t].pc \notin FreePcs) =>
              phys_page_count' >= phys_page_count
       /\ (\A t \in DOMAIN thr : thr[t].pc \notin AllocPcs) =>
              phys_page_count' <= phys_page_count
       /\ phys_page_count' >= 1]_vars

\* A bmslab_free call has just taken away a page that a bmslab_alloc call
\* had published, while no bmslab_alloc call is running.
C16_Witness ==
    /\ phys_page_count < virt_page_count
    /\ page_lock_refs[phys_page_count].lock
    /\ \E t \in DOMAIN thr : thr[t].pc = "s_rel"
    /\ \A t \in DOMAIN thr : thr[t].pc \notin AllocPcs

\* Thread t is between the load that found the last page drained and the
\* decrement of phys_page_count: madvise is its next step or its last one.
Reclaiming(t) == thr[t].pc \in {"s_madv", "s_sub"}

\* Thread u is past try_ref_page on page p and has not given its reference
\* back: it scans the page, holds a slot it claimed there, or frees one.
Using(u, p) ==
    \/ thr[u].pc \in {"a_load", "a_cas", "a_unref"} /\ thr[u].page_idx = p
    \/ Claimed(u) /\ FreePageIdx(thr[u].ptr) = p
    \/ thr[u].pc \in {"f_and", "f_dec", "f_unref"}
          /\ FreePageIdx(thr[u].ptr) = p

\* C18: while a shrink releases page last (from the load that found it
\* drained, through madvise, to the decrement), last is the last live page
\* and not page 0, no outstanding pointer lies on it, every bit of a real
\* slot of it is 0, and no thread holds a reference on it (none scans it,
\* holds a slot claimed on it or frees one); and no thread scans a page
\* that is not live, so no slot is claimed on the page until an expansion
\* has published it again.
C18_ReclaimSafety ==
    /\ \A t \in DOMAIN thr :
          Reclaiming(t) =>
            LET last == thr[t].idx
            IN /\ last = phys_page_count - 1
               /\ last >= 1
               /\ \A p \in BagToSet(outstanding) : FreePageIdx(p) # last
               /\ \A s \in 0 .. (SUBMAP_COUNT - 1) :
                     bitmaps[last][s] = InitSubmap(s)
               /\ \A u \in DOMAIN thr : ~Using(u, last)
    /\ \A p \in Pages :
          p >= phys_page_count =>
            /\ \A u \in DOMAIN thr : ~Using(u, p)
            /\ \A s \in 0 .. (SUBMAP_COUNT - 1) :
                  bitmaps[p][s] = InitSubmap(s)

\* A shrink releases the last page while an alloc call that chose this
\* page before it was locked is about to take a reference on it.
C18_Witness ==
    \E t \in DOMAIN thr :
        /\ Reclaiming(t)
        /\ \E u \in DOMAIN thr :
              /\ thr[u].pc = "a_ref"
              /\ thr[u].page_idx = thr[t].idx

\* C19: every successful CAS of bmslab_alloc is on a page whose index is
\* below phys_page_count at the CAS, and every pointer that is outstanding
\* or claimed by a call that has not returned yet lies on a page whose index
\* is below phys_page_count.
C19_LivePagesOnly ==
    /\ [](/\ \A p \in BagToSet(outstanding) :
               FreePageIdx(p) < phys_page_count
          /\ \A t \in DOMAIN thr :
               Claimed(t) => FreePageIdx(thr[t].ptr) < phys_page_count)
    /\ [][\A t \in DOMAIN thr :
            (thr[t].pc = "a_cas" /\ thr'[t].pc = "a_inc") =>
              /\ thr[t].page_idx < phys_page_count
              /\ FreePageIdx(thr'[t].ptr) = thr[t].page_idx]_vars

\* A CAS has just claimed a slot of the last page, which a shrink of the
\* other thread has locked and is about to find in use.
C19_Witness ==
    \E t \in DOMAIN thr :
        /\ thr[t].pc = "a_inc"
        /\ FreePageIdx(thr[t].ptr) >= 1
        /\ \E u \in DOMAIN thr :
              /\ thr[u].pc = "s_load"
              /\ thr[u].idx = FreePageIdx(thr[t].ptr)

\* Thread t starts try_ref_page on a page whose lock bit is set.
RefOnLocked(t) ==
    thr[t].pc = "a_ref" /\ IS_PAGE_LOCKED(page_lock_refs[thr[t].page_idx])

\* The reference count of page p without the increments of the
\* try_ref_page calls that found the page locked and have not yet
\* subtracted them again.
HeldRefs(p) ==
    page_lock_refs[p].ref
      - Cardinality({t \in DOMAIN thr :
                       thr[t].pc = "a_undo" /\ thr[t].page_idx = p})

\* C20 as stated: while the lock bit of page i stays set, no step raises
\* its reference count, and a try_ref_page that starts on a locked page does
\* not go on to the bitmap of the page.
C20_DrainLock ==
    [][/\ \A p \in Pages :
            (page_lock_refs[p].lock /\ page_lock_refs'[p].lock) =>
               page_lock_refs'[p].ref <= page_lock_refs[p].ref
       /\ \A t \in DOMAIN thr :
            (RefOnLocked(t) /\ thr'[t] # thr[t]) =>
               thr'[t].pc \notin {"a_load", "a_cas", "a_inc"}]_vars

\* C20 as the code has it: while the lock bit of page i is set, the only
\* step that raises its reference count is the fetch_add of a try_ref_page,
\* by one; the next step of that thread subtracts it again and moves to the
\* next page without loading or changing the bitmap; and the count without
\* these increments never rises while the bit stays set.
C20_DrainLockTransient ==
    [][/\ \A p \in Pages :
            (page_lock_refs[p].lock
               /\ page_lock_refs'[p].ref > page_lock_refs[p].ref) =>
               /\ page_lock_refs'[p] = RefAdd(page_lock_refs[p])
               /\ page_lock_refs'[p].lock
               /\ \E t \in DOMAIN thr :
                     /\ RefOnLocked(t)
                     /\ thr[t].page_idx = p
                     /\ thr'[t].pc = "a_undo"
                     /\ thr'[t].page_idx = p
       /\ \A t \in DOMAIN thr :
            (RefOnLocked(t) /\ thr'[t] # thr[t]) => thr'[t].pc = "a_undo"
       /\ \A t \in DOMAIN thr :
            (thr[t].pc = "a_undo" /\ thr'[t] # thr[t]) =>
               /\ page_lock_refs'[thr[t].page_idx]
                     = RefSub(page_lock_refs[thr[t].page_idx])
               /\ page_lock_refs[thr[t].page_idx].ref >= 1
               /\ bitmaps' = bitmaps
               /\ thr'[t].pc \in {"a_loop", "a_chk"}
       /\ \A p \in Pages :
            (page_lock_refs[p].lock /\ page_lock_refs'[p].lock) =>
               HeldRefs(p)' <= HeldRefs(p)]_vars

\* A try_ref_page has added 1 to the word of a page that a shrink has
\* locked, and the shrink is about to load the word.
C20_Witness ==
    \E t \in DOMAIN thr :
        /\ thr[t].pc = "a_undo"
        /\ page_lock_refs[thr[t].page_idx].lock
        /\ \E u \in DOMAIN thr :
              /\ thr[u].pc = "s_load"
              /\ thr[u].idx = thr[t].page_idx

\* The positions between a successful CAS of phys_page_count_flag from 0 to
\* 1 and the store of 0 that follows it, in adaptive_phys_page_expand and
\* adaptive_phys_page_shrink.
FlagHeldPcs == {"e_phys", "e_add", "e_unlock", "e_rel",
                "s_last", "s_lock", "s_load", "s_madv", "s_sub", "s_rel"}

FlagHolders == {t \in DOMAIN thr : thr[t].pc \in FlagHeldPcs}

\* C21: at most one thread is between a successful CAS of the flag from 0
\* to 1 and its store of 0 (so an expansion and a shrinkage never overlap),
\* the flag is 1 exactly then, and every step that changes phys_page_count
\* or the lock bit of a page is a step of that thread.
C21_SingleFlight ==
    /\ [](/\ Cardinality(FlagHolders) <= 1
          /\ phys_page_count_flag \in {0, 1}
          /\ (phys_page_count_flag = 1) <=> (FlagHolders # {}))
    /\ [][(\/ phys_page_count' # phys_page_count
           \/ \E p \in Pages :
                page_lock_refs'[p].lock # page_lock_refs[p].lock) =>
            \E t \in FlagHolders : thr'[t] # thr[t]]_vars

\* An expansion holds the flag while a shrink of the other thread is about
\* to try its CAS.
C21_Witness ==
    \E t \in DOMAIN thr :
        /\ thr[t].pc \in {"e_phys", "e_add", "e_unlock", "e_rel"}
        /\ \E u \in DOMAIN thr : thr[u].pc = "s_cas"

\* The pointers whose slot has been claimed by a successful CAS of
\* bmslab_alloc and not yet cleared by the fetch_and of the bmslab_free
\* that gives it back: claimed by a call that has not returned, held by a
\* caller, or passed to a bmslab_free that has not reached its fetch_and.
OwnedPtrs ==
    BagToSet(outstanding)
      \cup {thr[t].ptr : t \in {u \in DOMAIN thr : Claimed(u)}}
      \cup {thr[t].ptr : t \in {u \in DOMAIN thr : thr[u].pc = "f_and"}}

\* C22: for every page and every real slot, the bit of the slot is 1 if and
\* only if the slot is owned: claimed by a successful CAS and not yet
\* cleared by the fetch_and of its free.
C22_BitIffOwned ==
    \A p \in Pages :
        \A slot_idx \in 0 .. (slot_count_per_page - 1) :
            (slot_idx \div SUBMAP_COUNT
                \in bitmaps[p][slot_idx % SUBMAP_COUNT])
              <=> (SlotPtr(p, slot_idx) \in OwnedPtrs)

\* One slot is claimed by a call that has not returned while the bit of
\* another, passed to bmslab_free, has not been cleared yet.
C22_Witness ==
    \E t \in DOMAIN thr :
        /\ thr[t].pc = "a_inc"
        /\ \E u \in DOMAIN thr :
              /\ thr[u].pc = "f_and"
              /\ thr[u].ptr # thr[t].ptr

\* The slot indexes of a page that have a bit and no slot.
SentinelSlots == slot_count_per_page .. (SUBMAP_COUNT * WORD_BITS - 1)

\* C23: for every page and every slot index s with
\* slot_count_per_page <= s < 512, bit s div 16 of word s mod 16 is 1; no
\* alloc claims such a bit (its assert never fails) and no free clears one.
C23_SentinelsStay ==
    /\ \A p \in Pages :
          \A s \in SentinelSlots :
              (s \div SUBMAP_COUNT) \in bitmaps[p][s % SUBMAP_COUNT]
    /\ \A t \in DOMAIN thr :
          /\ thr[t].pc # "abort"
          /\ Claimed(t) => FreeSlotIdx(thr[t].ptr) \notin SentinelSlots

\* An alloc is about to load a word that has sentinel bits only, after a
\* free has cleared the bit of a slot.
C23_Witness ==
    \E t \in DOMAIN thr :
        /\ thr[t].pc = "a_load"
        /\ InitSubmap(SubmapIdx(thr[t])) = ALL_ONES
        /\ \E u \in DOMAIN thr : thr[u].pc = "f_dec"

\* The bmslab_alloc calls between their successful CAS and their fetch_add
\* on allocated_slot_count, and the bmslab_free calls between their
\* fetch_and and their fetch_sub on allocated_slot_count.
CountPending(label) ==
    Cardinality({t \in DOMAIN thr : thr[t].pc = label})

\* C24 as stated: in every state, also in the middle of calls,
\* allocated_slot_count is the number of 1-bits of all words minus the
\* sentinel bits.
C24_CountExact ==
    allocated_slot_count = Cardinality(UsedBits) - SentinelBits

\* C24 as the code has it: allocated_slot_count is the number of 1-bits
\* minus the sentinel bits, minus the allocs that have set their bit and not
\* yet counted it, plus the frees that have cleared their bit and not yet
\* counted it; so it differs from the number of 1-bits of real slots by at
\* most the number of threads, and equals it when no call is in flight.
C24_CountLags ==
    allocated_slot_count
      = Cardinality(UsedBits) - SentinelBits
          - CountPending("a_inc") + CountPending("f_dec")

\* An alloc has set its bit and a free has cleared its bit, and neither has
\* changed the counter yet.
C24_Witness ==
    /\ CountPending("a_inc") = 1
    /\ CountPending("f_dec") = 1

\* The number of pointers on page p that callers hold.
OutstandingOn(p) ==
    BagCardinality([q \in {x \in BagToSet(outstanding) :
                             FreePageIdx(x) = p}
                      |-> CopiesIn(q, outstanding)])

\* The calls in flight that have added 1 to the word of page p and not
\* subtracted it: those that use the page, and the try_ref_page calls that
\* found it locked and are about to subtract.
RefsInFlight(p) ==
    Cardinality({u \in DOMAIN thr :
                   \/ Using(u, p)
                   \/ thr[u].pc = "a_undo" /\ thr[u].page_idx = p})

\* C25: the reference count of page p is the number of pointers on p that
\* callers hold plus the number of calls in flight that hold a reference on
\* p, so in a quiescent state it is the number of outstanding allocations
\* on p (a successful alloc has added exactly one, its free subtracts
\* exactly one, an alloc that left the page without a slot has added
\* nothing); every step changes a count by at most one and leaves the lock
\* bit as it was, and no count is decremented at 0.
C25_RefCount ==
    /\ [](\A p \in Pages :
            /\ page_lock_refs[p].ref >= 0
            /\ page_lock_refs[p].ref = OutstandingOn(p) + RefsInFlight(p)
            /\ Quiescent => page_lock_refs[p].ref = OutstandingOn(p))
    /\ [][\A p \in Pages :
            page_lock_refs'[p].ref # page_lock_refs[p].ref =>
              /\ page_lock_refs'[p].lock = page_lock_refs[p].lock
              /\ \/ page_lock_refs'[p].ref = page_lock_refs[p].ref + 1
                 \/ /\ page_lock_refs'[p].ref = page_lock_refs[p].ref - 1
                    /\ page_lock_refs[p].ref >= 1]_vars

\* An alloc has found no free slot on a page on which allocations are
\* outstanding, and is about to give its reference back.
C25_Witness ==
    \E t \in DOMAIN thr :
        /\ thr[t].pc = "a_unref"
        /\ OutstandingOn(thr[t].page_idx) >= 1
        /\ page_lock_refs[thr[t].page_idx].ref >= 2

\* C26: every page with index >= phys_page_count has its lock bit set and
\* reference count 0, from construction onwards.
C26_UnpublishedLocked ==
    \A p \in Pages :
        p >= phys_page_count =>
            /\ IS_PAGE_LOCKED(page_lock_refs[p])
            /\ page_lock_refs[p].ref = 0

\* Page p is live and locked, and no shrink is between its lock and its
\* decrement on it, nor an expansion about to unlock it: a shrink attempt
\* has locked it, found its reference count non-zero and gone.
Stranded(p) ==
    /\ p < phys_page_count
    /\ IS_PAGE_LOCKED(page_lock_refs[p])
    /\ \A t \in DOMAIN thr :
          thr[t].pc \in {"s_load", "s_madv", "s_sub", "e_unlock"} =>
             thr[t].idx # p

\* Thread t takes the step from label from.
StepsFrom(t, from) == thr[t].pc = from /\ thr'[t] # thr[t]

\* A shrink that finds a non-zero reference count on the page it locked
\* leaves the page word and phys_page_count as they are and goes on to
\* release the flag.
FailedDrainKeepsLock ==
    \A t \in DOMAIN thr :
        (StepsFrom(t, "s_load")
           /\ ~is_page_reclaimable(page_lock_refs[thr[t].idx])) =>
            /\ page_lock_refs' = page_lock_refs
            /\ IS_PAGE_LOCKED(page_lock_refs[thr[t].idx])
            /\ phys_page_count' = phys_page_count
            /\ thr'[t].pc = "s_rel"

\* A shrink attempt releases the page it has locked if, when it loads the
\* word, no allocation on the page is outstanding and no call in flight
\* holds a reference on it.
DrainedIsReleased ==
    \A t \in DOMAIN thr :
        (StepsFrom(t, "s_load") /\ OutstandingOn(thr[t].idx) = 0
           /\ RefsInFlight(thr[t].idx) = 0) =>
            thr'[t].pc = "s_madv"

\* C27 as stated: a failed drain keeps the lock and phys_page_count; from
\* then on no CAS of bmslab_alloc succeeds on that page; and a later shrink
\* attempt on the page releases it once it has drained.
C27_FailedDrain ==
    [][/\ FailedDrainKeepsLock
       /\ \A t \in DOMAIN thr :
            (StepsFrom(t, "a_cas") /\ thr'[t].pc = "a_inc") =>
               ~Stranded(thr[t].page_idx)
       /\ DrainedIsReleased]_vars

\* C27 as the code has it: a failed drain keeps the lock and
\* phys_page_count; the lock of the page stays set until a shrink has
\* released the page and an expansion publishes it again; from the failed
\* drain on, no bmslab_alloc that starts try_ref_page on the page reaches
\* its bitmap (a call that took its reference before the lock was set can
\* still claim a slot); and a later shrink attempt on the page releases it
\* if, when it loads the word, no allocation on the page is outstanding and
\* no call in flight holds a reference on it.
C27_FailedDrainForNewRefs ==
    [][/\ FailedDrainKeepsLock
       /\ \A p \in Pages :
            (IS_PAGE_LOCKED(page_lock_refs[p])
               /\ ~IS_PAGE_LOCKED(page_lock_refs'[p])) =>
               /\ ~Stranded(p)
               /\ p = phys_page_count - 1
               /\ \E t \in DOMAIN thr :
                     StepsFrom(t, "e_unlock") /\ thr[t].idx = p
       /\ \A t \in DOMAIN thr :
            (StepsFrom(t, "a_ref") /\ Stranded(thr[t].page_idx)) =>
               thr'[t].pc = "a_undo"
       /\ DrainedIsReleased]_vars

\* After a failed drain, a call that took its reference on the page before
\* the lock was set is about to try its CAS there, and the other thread's
\* alloc has been turned away by the lock.
C27_Witness ==
    \E p \in Pages :
        /\ Stranded(p)
        /\ \E t \in DOMAIN thr :
              thr[t].pc = "a_cas" /\ thr[t].page_idx = p
        /\ \E u \in DOMAIN thr :
              thr[u].pc = "a_undo" /\ thr[u].page_idx = p

\* Every live page has its lock bit set.
AllLiveLocked ==
    \A p \in 0 .. (phys_page_count - 1) : IS_PAGE_LOCKED(page_lock_refs[p])

\* C28: a bmslab_alloc call returns NULL only if every real slot of every
\* live page is in use with phys_page_count at virt_page_count, or every
\* live page is locked.  With a single caller nothing but the call itself
\* changes the instance during the call, a call that returns NULL has set
\* no bit, and phys_page_count has reached virt_page_count before NULL is
\* returned, so "at some moment during the call" is the moment of the
\* return.
C28_NullOnlyIfExhausted ==
    \A t \in DOMAIN thr :
        (thr[t].pc = "a_ret" /\ thr[t].ptr = NULL) =>
            \/ AllLiveFull /\ phys_page_count = virt_page_count
            \/ AllLiveLocked

\* C29: the shrink step that loads the word of the page it has locked goes
\* on to madvise and the decrement exactly when the word is the lock bit
\* with reference count 0, and otherwise goes to the release of the flag
\* with the instance unchanged; madvise is followed by the decrement of
\* phys_page_count by one; and phys_page_count decreases in no other step.
C29_ReclaimCondition ==
    [][/\ \A t \in DOMAIN thr :
            StepsFrom(t, "s_load") =>
              /\ thr[t].idx = phys_page_count - 1
              /\ slab' = slab
              /\ IF page_lock_refs[thr[t].idx] = [lock |-> TRUE, ref |-> 0]
                 THEN thr'[t].pc = "s_madv"
                 ELSE thr'[t].pc = "s_rel"
       /\ \A t \in DOMAIN thr :
            StepsFrom(t, "s_madv") =>
              slab' = slab /\ thr'[t].pc = "s_sub"
       /\ \A t \in DOMAIN thr :
            StepsFrom(t, "s_sub") =>
              /\ phys_page_count' = phys_page_count - 1
              /\ thr[t].idx = phys_page_count - 1
              /\ thr'[t].pc = "s_rel"
       /\ phys_page_count' < phys_page_count =>
            \E t \in DOMAIN thr : StepsFrom(t, "s_sub")]_vars

\* A shrink is about to decrement phys_page_count for a page whose word
\* another thread's try_ref_page has raised since the load.
C29_Witness ==
    \E t \in DOMAIN thr :
        /\ thr[t].pc = "s_sub"
        /\ \E u \in DOMAIN thr :
              thr[u].pc = "a_undo" /\ thr[u].page_idx = thr[t].idx

\* C30: the lock bit of page 0 is clear in every state and no shrink locks,
\* loads, releases or takes away page 0; a shrink that finds
\* phys_page_count = 1 goes to the store that releases the flag with the
\* instance unchanged, and that store changes the flag only.
C30_FirstPageStays ==
    /\ [](/\ ~IS_PAGE_LOCKED(page_lock_refs[0])
          /\ \A t \in DOMAIN thr :
               thr[t].pc \in {"s_lock", "s_load", "s_madv", "s_sub"} =>
                  thr[t].idx >= 1)
    /\ [][\A t \in DOMAIN thr :
            /\ (StepsFrom(t, "s_last") /\ phys_page_count = 1) =>
                  /\ slab' = slab
                  /\ thr'[t].pc = "s_rel"
            /\ StepsFrom(t, "s_rel") =>
                  /\ phys_page_count_flag' = 0
                  /\ <<obj_size, virt_page_count, bitmaps, page_lock_refs,
                       allocated_slot_count, phys_page_count>>'
                       = <<obj_size, virt_page_count, bitmaps,
                           page_lock_refs, allocated_slot_count,
                           phys_page_count>>
                  /\ thr'[t].pc = "idle"]_vars

\* A shrink has found page 0 to be the last page of an instance that has
\* never published another, and is about to release the flag.
C30_Witness ==
    \E t \in DOMAIN thr :
        /\ thr[t].pc = "s_rel"
        /\ phys_page_count = 1
        /\ \A p \in Pages : ~IS_PAGE_LOCKED(page_lock_refs[p])

-----------------------------------------------------------------------------
(* One caller; an allocation and the free of the pointer it returned are
   recorded in api: snap holds the fields at the call of bmslab_alloc, args
   the physical page count at its return, ret the pointer returned. *)

PairAlloc(t) ==
    /\ AllocCall(t)
    /\ api' = [call |-> "bmslab_alloc", args |-> <<>>, ret |-> NULL,
               snap |-> slab]

PairWork(t) ==
    /\ Work(t)
    /\ api' = IF thr[t].pc = "a_ret" /\ api.call = "bmslab_alloc"
              THEN [api EXCEPT !.args = <<phys_page_count>>,
                               !.ret = thr[t].ptr]
              ELSE api

PairFree(t) ==
    /\ api.call = "bmslab_alloc"
    /\ api.ret # NULL
    /\ FreeHeld(t, api.ret)
    /\ api' = [api EXCEPT !.call = "bmslab_free"]

PairFreeOther(t) ==
    /\ \E ptr \in BagToSet(outstanding) :
          /\ api.call = "bmslab_alloc" => ptr # api.ret
          /\ FreeHeld(t, ptr)
    /\ api' = NoCall

PairNext ==
    /\ ~Aborted
    /\ \E t \in DOMAIN thr :
          \/ PairAlloc(t)
          \/ PairWork(t)
          \/ PairFree(t)
          \/ PairFreeOther(t)

PairSpec == ApiInit /\ [][PairNext]_vars

\* The allocation of the recorded pair raised the physical page count
PairExpanded ==
    /\ api.call = "bmslab_free"
    /\ api.args # <<>>
    /\ api.args[1] > api.snap[7]

\* C31: a single-threaded bmslab_alloc immediately followed by the free of
\* the pointer it returned never raises phys_page_count by one in the
\* allocation and lowers it again in the free.
C31_NoThrash == PairExpanded => phys_page_count >= api.args[1]

\* The page count changes only in the fetch_add of an expansion and the
\* fetch_sub of a shrink, by one
PhysChangesByOne ==
    phys_page_count' # phys_page_count =>
        \E t \in DOMAIN thr :
            \/ StepsFrom(t, "e_add") /\ phys_page_count' = phys_page_count + 1
            \/ StepsFrom(t, "s_sub") /\ phys_page_count' = phys_page_count - 1

\* An invocation reaches its fetch_add or fetch_sub only through its own
\* threshold test and flag CAS, and leaves for the release of the flag
OncePerInvocation ==
    \A t \in DOMAIN thr :
        /\ StepsFrom(t, "e_add") => thr'[t].pc = "e_unlock"
        /\ StepsFrom(t, "e_unlock") => thr'[t].pc = "e_rel"
        /\ StepsFrom(t, "e_rel") => thr'[t].pc \notin {"e_cas", "e_phys", "e_add"}
        /\ thr'[t].pc = "e_add" => thr[t].pc \in {"e_phys", "e_add"}
        /\ thr'[t].pc = "e_phys" => thr[t].pc \in {"e_cas", "e_phys"}
        /\ thr'[t].pc = "e_cas" => thr[t].pc \in {"e_max", "e_cas"}
        /\ StepsFrom(t, "s_sub") => thr'[t].pc = "s_rel"
        /\ StepsFrom(t, "s_rel") => thr'[t].pc = "idle"
        /\ thr'[t].pc = "s_sub" => thr[t].pc \in {"s_madv", "s_sub"}
        /\ thr'[t].pc = "s_madv" => thr[t].pc \in {"s_load", "s_madv"}
        /\ thr'[t].pc = "s_load" => thr[t].pc \in {"s_lock", "s_load"}
        /\ thr'[t].pc = "s_lock" => thr[t].pc \in {"s_last", "s_lock"}
        /\ thr'[t].pc = "s_last" => thr[t].pc \in {"s_cas", "s_last"}
        /\ thr'[t].pc = "s_cas" => thr[t].pc \in {"s_max", "s_cas"}

\* C32 as stated: at the moment phys_page_count is incremented
\* allocated_slot_count >= (phys_page_count * slot_count_per_page) / 2, at
\* the moment it is decremented allocated_slot_count <=
\* (phys_page_count * slot_count_per_page) / 8, both for the page count
\* before the change, and each invocation changes the page count by at
\* most one.
C32_ThresholdAtChange ==
    [][/\ PhysChangesByOne
       /\ OncePerInvocation
       /\ phys_page_count' = phys_page_count + 1 =>
             ~U32Less(allocated_slot_count,
                      (phys_page_count * slot_count_per_page) \div 2)
       /\ phys_page_count' = phys_page_count - 1 =>
             ~U32Less((phys_page_count * slot_count_per_page) \div 8,
                      allocated_slot_count)]_vars

\* C32 (amended): the threshold holds at the threshold test, for the counter
\* value the invocation loaded at its start and the page count it reads in
\* the test; an invocation goes on to the flag exactly if it holds, changes
\* phys_page_count only after that test, by one and once.  The counter may
\* have moved past the threshold by the time of the change.
C32_ThresholdAtTest ==
    [][/\ PhysChangesByOne
       /\ OncePerInvocation
       /\ \A t \in DOMAIN thr :
             /\ StepsFrom(t, "e_max") =>
                   (thr'[t].pc = "e_cas") =
                      ~U32Less(thr[t].slot_count,
                               (phys_page_count * slot_count_per_page) \div 2)
             /\ StepsFrom(t, "s_max") =>
                   (thr'[t].pc = "s_cas") =
                      ~U32Less((phys_page_count * slot_count_per_page) \div 8,
                               thr[t].slot_count)]_vars

\* A shrink is about to decrement the page count while the counter is
\* above the shrink threshold
C32_Witness ==
    \E t \in DOMAIN thr :
        /\ thr[t].pc = "s_sub"
        /\ U32Less((phys_page_count * slot_count_per_page) \div 8,
                   allocated_slot_count)

ExpandPcs == {"e_cnt", "e_max", "e_cas", "e_phys", "e_add", "e_unlock",
              "e_rel"}

ShrinkPcs == {"s_cnt", "s_max", "s_cas", "s_last", "s_lock", "s_load",
              "s_madv", "s_sub", "s_rel"}

\* Thread t loses the CAS on the coordination flag in this step
LosesFlag(t) ==
    /\ thr[t].pc \in {"e_cas", "s_cas"}
    /\ phys_page_count_flag # 0
    /\ thr'[t] # thr[t]

\* C33: a thread whose CAS on the coordination flag fails returns from
\* expand or shrink in that step: no field of the instance changes (page
\* count, page words, flag, bitmaps, counter), it does not go on to the
\* lock, the madvise or the page count, and it has nothing to wait for (the
\* step is enabled whatever the other threads do).
C33_LosersAbort ==
    /\ [](\A t \in DOMAIN thr :
             thr[t].pc \in {"e_cas", "s_cas"} =>
                ENABLED (Work(t) /\ UNCHANGED api))
    /\ [][\A t \in DOMAIN thr :
             LosesFlag(t) =>
                /\ slab' = slab
                /\ thr'[t].pc \notin ExpandPcs \cup ShrinkPcs
                /\ thr[t].pc = "e_cas" => thr'[t].pc \in {"a_ret", "a_retry"}
                /\ thr[t].pc = "s_cas" => thr'[t].pc = "idle"
                /\ \A u \in DOMAIN thr \ {t} : thr'[u] = thr[u]]_vars

\* A shrink and an expansion are at their CAS while the other thread holds
\* the flag
C33_Witness ==
    /\ phys_page_count_flag = 1
    /\ \E t \in DOMAIN thr : thr[t].pc \in {"e_cas", "s_cas"}

-----------------------------------------------------------------------------
(* Concurrent callers; a thread inside a call keeps taking steps *)

FairSpec ==
    /\ Init
    /\ [][Next]_vars
    /\ \A t \in 1 .. NumThreads : WF_vars(Work(t) /\ UNCHANGED api)

\* C34: every thread that set the coordination flag stores 0 to it on its
\* way out of expand or shrink, whatever the path (page added, already at
\* max_pages, last page is page 0, drain succeeded, drain failed); so the
\* flag is 0 whenever no thread is past a successful CAS inside expand or
\* shrink, and a set flag is eventually cleared when its holder keeps taking
\* steps.
C34_FlagReleased ==
    /\ [](FlagHolders = {} => phys_page_count_flag = 0)
    /\ [][\A t \in DOMAIN thr :
             (thr[t].pc \in FlagHeldPcs /\ thr'[t].pc \notin FlagHeldPcs) =>
                /\ thr[t].pc \in {"e_rel", "s_rel"}
                /\ phys_page_count_flag' = 0]_vars
    /\ (phys_page_count_flag = 1) ~> (phys_page_count_flag = 0)

\* A shrink whose drain failed is about to store 0 to the flag
C34_Witness ==
    \E t \in DOMAIN thr :
        /\ thr[t].pc = "s_rel"
        /\ phys_page_count_flag = 1
        /\ phys_page_count > 1
        /\ page_lock_refs[phys_page_count - 1].lock
        /\ page_lock_refs[phys_page_count - 1].ref # 0

-----------------------------------------------------------------------------
(* Concurrent callers; api.snap holds the net effect that the steps of the
   running bmslab_alloc call of thread 1 have had on the instance: the
   bitmap bits it changed, the change of every reference count, the pages
   whose lock bit it changed, the change of allocated_slot_count. *)

NoEffect == [bits |-> {}, refs |-> [p \in Pages |-> 0], locks |-> {},
             count |-> 0]

SymDiff(a, b) == (a \ b) \cup (b \ a)

\* The effect e followed by the step that is being taken
EffectAfter(e) ==
    [bits |-> IF bitmaps' = bitmaps THEN e.bits
              ELSE SymDiff(e.bits,
                      {<<p, s, b>> \in
                          Pages \X (0 .. (SUBMAP_COUNT - 1)) \X ALL_ONES :
                              (b \in bitmaps[p][s]) # (b \in bitmaps'[p][s])}),
     refs |-> [p \in Pages |->
                 e.refs[p] + page_lock_refs'[p].ref - page_lock_refs[p].ref],
     locks |-> SymDiff(e.locks,
                  {p \in Pages :
                      page_lock_refs'[p].lock # page_lock_refs[p].lock}),
     count |-> e.count + allocated_slot_count' - allocated_slot_count]

CallAlloc(t) ==
    /\ AllocCall(t)
    /\ api' = IF t = 1
              THEN [call |-> "bmslab_alloc", args |-> <<>>, ret |-> NULL,
                    snap |-> NoEffect]
              ELSE api

CallWork(t) ==
    /\ Work(t)
    /\ api' = IF t = 1 /\ api.call = "bmslab_alloc"
              THEN IF thr[t].pc = "a_ret" THEN NoCall
                   ELSE [api EXCEPT !.snap = EffectAfter(api.snap)]
              ELSE api

CallNext ==
    /\ ~Aborted
    /\ \E t \in DOMAIN thr :
          \/ CallAlloc(t)
          \/ FreeCall(t) /\ UNCHANGED api
          \/ CallWork(t)

CallSpec == Init /\ [][CallNext]_vars

\* bmslab_alloc of thread 1 returns NULL in this step
ReturnsNull ==
    /\ thr[1].pc = "a_ret"
    /\ thr[1].ptr = NULL
    /\ thr'[1].pc = "idle"

\* C35 as stated: a bmslab_alloc call that returns NULL has changed no
\* bitmap bit, has a net effect of zero on every page word, and has not
\* changed allocated_slot_count.
C35_NoTrace ==
    [][ReturnsNull =>
          /\ api.snap.bits = {}
          /\ \A p \in Pages : api.snap.refs[p] = 0
          /\ api.snap.locks = {}
          /\ api.snap.count = 0]_vars

\* C35 (amended): a bmslab_alloc call that returns NULL has changed no
\* bitmap bit, has a net effect of zero on the reference count of every
\* page, and has not changed allocated_slot_count.  It may have published a
\* page and cleared that page's lock bit.
C35_NoTraceButExpansion ==
    [][ReturnsNull =>
          /\ api.snap.bits = {}
          /\ \A p \in Pages : api.snap.refs[p] = 0
          /\ api.snap.count = 0]_vars

\* A call about to return NULL took and undid a reference
C35_Witness ==
    /\ thr[1].pc = "a_ret"
    /\ thr[1].ptr = NULL
    /\ api.call = "bmslab_alloc"
    /\ \E p \in Pages : page_lock_refs[p].ref > 0

\* Thread t publishes page phys_page_count in this step (the fetch_add)
Publishes(t) == StepsFrom(t, "e_add")

\* The page that is being published has every real slot free, in its
\* bitmap and in the callers' hands
PublishedEmpty ==
    /\ \A s \in 0 .. (SUBMAP_COUNT - 1) :
          bitmaps[phys_page_count][s] = InitSubmap(s)
    /\ \A p \in BagToSet(outstanding) : FreePageIdx(p) # phys_page_count

\* The publishing thread clears the lock bit of the page it published as
\* its next step, and no lock bit changes between that and its release of
\* the flag
PublishedUnlocked ==
    \A t \in DOMAIN thr :
        /\ Publishes(t) =>
              /\ thr'[t].pc = "e_unlock"
              /\ thr'[t].idx = phys_page_count
              /\ phys_page_count' = phys_page_count + 1
        /\ StepsFrom(t, "e_unlock") =>
              /\ ~page_lock_refs'[thr[t].idx].lock
              /\ thr'[t].pc = "e_rel"
        /\ thr[t].pc = "e_rel" =>
              /\ \A p \in Pages :
                    page_lock_refs'[p].lock = page_lock_refs[p].lock
              /\ phys_page_count' = phys_page_count

\* C36 as stated: whenever expansion makes page n live, all real slot bits
\* of page n are 0, its reference count is 0, and when the expansion has
\* finished its lock bit is clear.
C36_RepublishedEmpty ==
    [][/\ PublishedUnlocked
       /\ \A t \in DOMAIN thr :
             Publishes(t) =>
                /\ PublishedEmpty
                /\ page_lock_refs[phys_page_count].ref = 0]_vars

\* C36 (amended): whenever expansion makes page n live, all real slot bits
\* of page n are 0, no pointer into it is outstanding, and its reference
\* count holds nothing but the increments of try_ref_page calls that found
\* page n locked and have their decrement still to do; when the expansion
\* has finished the lock bit of page n is clear.
C36_RepublishedFree ==
    [][/\ PublishedUnlocked
       /\ \A t \in DOMAIN thr :
             Publishes(t) =>
                /\ PublishedEmpty
                /\ page_lock_refs[phys_page_count].ref =
                      Cardinality({u \in DOMAIN thr :
                                      /\ thr[u].pc = "a_undo"
                                      /\ thr[u].page_idx = phys_page_count})]_vars

\* An expansion is about to publish a page that was reclaimed before, while
\* a try_ref_page that found it locked has not yet undone its increment
C36_Witness ==
    \E t \in DOMAIN thr :
        /\ thr[t].pc = "e_add"
        /\ page_lock_refs[phys_page_count].lock
        /\ page_lock_refs[phys_page_count].ref = 1

-----------------------------------------------------------------------------
(* The index arithmetic of bmslab_init, bmslab_alloc and bmslab_free for
   every object size bmslab_init accepts *)

LayoutPages == 2

LayoutInit ==
    \E size \in 8 .. PAGE_SIZE, max_page_count \in 1 .. LayoutPages :
        bmslab_init(size, max_page_count, 1)

\* The pointer bmslab_alloc returns after claiming bit bit_idx of submap
\* submap_idx of page page_idx, and the page, submap and bit that
\* bmslab_free derives from that pointer
AllocFreeIndex(page_idx, submap_idx, bit_idx) ==
    LET slot_idx == bit_idx * SUBMAP_COUNT + submap_idx
        ptr == SlotPtr(page_idx, slot_idx)
    IN /\ api.call = "none"
       /\ slot_idx < slot_count_per_page
       /\ api' = [call |-> "alloc_free_index",
                  args |-> <<page_idx, submap_idx, bit_idx>>,
                  ret |-> <<FreePageIdx(ptr), FreeSubmapIdx(ptr),
                            FreeBitIdx(ptr)>>,
                  snap |-> <<ptr>>]
       /\ UNCHANGED <<slab, thr, outstanding, hist>>

LayoutNext ==
    \E page_idx \in Pages, submap_idx \in 0 .. (SUBMAP_COUNT - 1),
       bit_idx \in ALL_ONES :
        AllocFreeIndex(page_idx, submap_idx, bit_idx)

LayoutSpec == LayoutInit /\ [][LayoutNext]_vars

\* C37: after bmslab_init, for every page and every slot index s in
\* [0, 512), the bit at submap s mod 16, position s div 16 is 0 if
\* s < floor(4096 / obj_size) and 1 otherwise, for every obj_size in
\* [8, 4096]; each page starts with exactly slot_count_per_page free bits.
C37_InitLayout ==
    \A p \in Pages :
        /\ \A s \in 0 .. (SUBMAP_COUNT * WORD_BITS - 1) :
              ((s \div 16) \in bitmaps[p][s % 16]) = ~(s < 4096 \div obj_size)
        /\ Cardinality({<<i, b>> \in (0 .. 15) \X (0 .. 31) :
                           b \notin bitmaps[p][i]}) = 4096 \div obj_size

\* An instance whose slot count is not a multiple of the number of submaps:
\* 170 slots of 24 bytes, the last one at bit 10 of submap 9
C37_Witness ==
    /\ obj_size = 24
    /\ virt_page_count = 2
    /\ 10 \notin bitmaps[1][9]
    /\ 10 \in bitmaps[1][10]

\* C38: for every page, submap sub and bit with slot = bit * 16 + sub <
\* slot_count_per_page, the (page, submap, bit) that bmslab_free derives from
\* the pointer base + page * 4096 + slot * obj_size is the (page, sub, bit)
\* that bmslab_alloc claimed, for every obj_size in [8, 4096].
C38_RoundTrip ==
    api.call = "alloc_free_index" =>
        /\ api.snap[1] = api.args[1] * 4096
                            + (api.args[3] * 16 + api.args[2]) * obj_size
        /\ api.ret = api.args

\* The last slot of the second page of an instance of 170 slots of 24 bytes
C38_Witness ==
    /\ api.call = "alloc_free_index"
    /\ obj_size = 24
    /\ api.args = <<1, 9, 10>>
    /\ api.snap = <<4096 + 169 * 24>>

====
